---- MODULE Spec2Model ----
(***************************************************************************)
(* A model of the scoring engine of hr-mate-ai-code (scorer.py, config.py). *)
(*                                                                         *)
(* Representation.                                                         *)
(*  - A text label is a sequence of one-character strings.                 *)
(*  - A Python value is a tagged record: [t |-> "none"], [t |-> "num",     *)
(*    v |-> n], [t |-> "str", v |-> label], [t |-> "list", v |-> <<..>>],  *)
(*    [t |-> "dict", v |-> << <<key, value>>, .. >>] (insertion order),    *)
(*    [t |-> "json", v |-> value] (the str that json.dumps gives for       *)
(*    value), [t |-> "date", v |-> instant] (a str that dateutil parses).  *)
(*    Any other str in brackets is one json.loads rejects; any other str   *)
(*    is one dateutil rejects.                                             *)
(*  - Scores are integers in thousandths (1000 is 1.0), weights integers   *)
(*    in hundredths, the overall score an integer in ten-thousandths.      *)
(*  - An instant is an integer number of minutes; a numeric timestamp n    *)
(*    stands for the number 60000 * n.                                     *)
(***************************************************************************)
EXTENDS Integers, Sequences, FiniteSets, TLC

VARIABLES
    project,     \* project_record of the batch
    candidates,  \* candidate_employee_records of the batch
    custom,      \* custom_weights of the call, None for the default table
    SCORING_WEIGHTS, \* config.SCORING_WEIGHTS, the module-level default table
    now,         \* datetime.now(), in minutes
    reports,     \* all_scored_candidates
    pc,          \* "scoring", "returned" or "raised"
    exception,   \* the exception that left the batch, "" when none did
    tie_up,      \* how round() falls on a decimal tie (see RoundDiv)
    driver       \* the locals of main_matcher.main() and the files it uses

vars == <<project, candidates, custom, SCORING_WEIGHTS, now, reports, pc, exception, tie_up, driver>>

(***************************************************************************)
(* Arithmetic helpers.                                                     *)
(***************************************************************************)
Min2(a, b) == IF a <= b THEN a ELSE b
Max2(a, b) == IF a >= b THEN a ELSE b

\* n / d (d > 0) to the nearest integer, ties to even: round() of a quotient
\* that binary floating point holds exactly (fuzz.ratio's, for short labels).
RoundHalfEven(n, d) ==
    LET q == n \div d
        r == n % d
    IN  IF 2 * r < d THEN q
        ELSE IF 2 * r > d THEN q + 1
        ELSE IF q % 2 = 0 THEN q ELSE q + 1

\* Python's round(x, k) of a float quotient n / d (d > 0), in units of 10^-k.
\* Off a decimal tie the float error cannot change the result. On a decimal
\* tie the float nearest to n / d lies on one side of it or the other, so
\* the result is either neighbour: the direction is the variable tie_up.
RoundDiv(n, d) ==
    LET q == n \div d
        r == n % d
    IN  IF 2 * r < d THEN q
        ELSE IF 2 * r > d THEN q + 1
        ELSE IF tie_up THEN q + 1 ELSE q

RECURSIVE SumSeq(_)
SumSeq(s) == IF s = <<>> THEN 0 ELSE Head(s) + SumSeq(Tail(s))

(***************************************************************************)
(* Text: str.lower() and fuzz.ratio (fuzzywuzzy over SequenceMatcher).     *)
(***************************************************************************)
LowerChar(c) ==
    CASE c = "A" -> "a" [] c = "B" -> "b" [] c = "C" -> "c" [] c = "D" -> "d"
      [] c = "E" -> "e" [] c = "F" -> "f" [] c = "G" -> "g" [] c = "H" -> "h"
      [] c = "I" -> "i" [] c = "J" -> "j" [] c = "K" -> "k" [] c = "L" -> "l"
      [] c = "M" -> "m" [] c = "N" -> "n" [] c = "O" -> "o" [] c = "P" -> "p"
      [] c = "Q" -> "q" [] c = "R" -> "r" [] c = "S" -> "s" [] c = "T" -> "t"
      [] c = "U" -> "u" [] c = "V" -> "v" [] c = "W" -> "w" [] c = "X" -> "x"
      [] c = "Y" -> "y" [] c = "Z" -> "z"
      [] OTHER -> c

RECURSIVE Lower(_)
Lower(s) == IF s = <<>> THEN <<>> ELSE <<LowerChar(Head(s))>> \o Lower(Tail(s))

\* Length of the common run of a from i and b from j, inside a[..ahi], b[..bhi].
RECURSIVE MatchLen(_, _, _, _, _, _)
MatchLen(a, b, i, j, ahi, bhi) ==
    IF i > ahi \/ j > bhi THEN 0
    ELSE IF a[i] # b[j] THEN 0
    ELSE 1 + MatchLen(a, b, i + 1, j + 1, ahi, bhi)

\* The best of a set of blocks <<i, j, size>>: the longest, then the
\* earliest in a, then the earliest in b.
BestBlock(blocks) ==
    CHOOSE t \in blocks :
       \A u \in blocks :
          \/ u[3] < t[3]
          \/ u[3] = t[3] /\ (t[1] < u[1] \/ (t[1] = u[1] /\ t[2] <= u[2]))

\* SequenceMatcher.find_longest_match on the non-empty a[alo..ahi], b[blo..bhi].
LongestMatch(a, b, alo, ahi, blo, bhi) ==
    CHOOSE m \in
        { BestBlock(blocks) :
            blocks \in { { <<p[1], p[2], MatchLen(a, b, p[1], p[2], ahi, bhi)>>
                           : p \in (alo..ahi) \X (blo..bhi) } } } : TRUE

\* SequenceMatcher.get_matching_blocks: total size of the matching blocks
\* (the longest one, then those to its left and those to its right).
RECURSIVE Matched(_, _, _, _, _, _)
Matched(a, b, alo, ahi, blo, bhi) ==
    IF alo > ahi \/ blo > bhi THEN 0
    ELSE CHOOSE total \in
            { IF m[3] = 0 THEN 0
              ELSE m[3]
                   + Matched(a, b, alo, m[1] - 1, blo, m[2] - 1)
                   + Matched(a, b, m[1] + m[3], ahi, m[2] + m[3], bhi)
              : m \in {LongestMatch(a, b, alo, ahi, blo, bhi)} } : TRUE

\* fuzz.ratio: 100 for equal strings, 0 for an empty one, else round(100 * 2M / T).
RatioOf(a, b) ==
    IF a = b THEN 100
    ELSE IF Len(a) = 0 \/ Len(b) = 0 THEN 0
    ELSE RoundHalfEven(200 * Matched(a, b, 1, Len(a), 1, Len(b)), Len(a) + Len(b))

\* fuzz.ratio(str(x).lower(), str(y).lower()) of two labels.
RatioLower(x, y) ==
    CHOOSE r \in { RatioOf(a, b) : a \in {Lower(x)}, b \in {Lower(y)} } : TRUE

fuzzy_match_threshold == 70

(***************************************************************************)
(* Python values.                                                          *)
(***************************************************************************)
Missing     == [t |-> "missing"]     \* the key is absent from the record
None        == [t |-> "none"]        \* the key is present with a null value
Num(n)      == [t |-> "num", v |-> n]
Str(s)      == [t |-> "str", v |-> s]
List(l)     == [t |-> "list", v |-> l]
Dict(d)     == [t |-> "dict", v |-> d]
Json(x)     == [t |-> "json", v |-> x]
Weights(w)  == [t |-> "weights", v |-> w]   \* a weight table: name -> hundredths

\* Python truthiness (bool(x)); a JSON text is a non-empty str.
Truthy(x) ==
    CASE x.t \in {"missing", "none"} -> FALSE
      [] x.t = "num" -> x.v # 0
      [] x.t \in {"str", "list", "dict"} -> Len(x.v) > 0
      [] OTHER -> TRUE

\* dict.get(key, default): the default only when the key is absent.
Get(record, field, default) ==
    IF record[field].t = "missing" THEN default ELSE record[field]

\* iter(x): the items of a list, the keys of a dict.
Items(x) ==
    IF x.t = "dict" THEN [i \in 1..Len(x.v) |-> x.v[i][1]] ELSE x.v

\* A result of a call: exc = "" when it returned, else the exception raised.
Ret(score, details) == [exc |-> "", score |-> score, details |-> details]
Raise(e)            == [exc |-> e, score |-> 0, details |-> <<>>]

(***************************************************************************)
(* scorer.py: helper functions.                                            *)
(***************************************************************************)
\* Labels are str here; an empty label is falsy.
fuzzy_match(text1, text2) ==
    IF Len(text1) = 0 \/ Len(text2) = 0 THEN FALSE
    ELSE RatioLower(text1, text2) >= fuzzy_match_threshold

\* value an int; the result in thousandths.
normalize(value, min_val, max_val) ==
    IF max_val = min_val THEN (IF value <= min_val THEN 0 ELSE 1000)
    ELSE Max2(0, Min2(1000, (1000 * (value - min_val)) \div (max_val - min_val)))

\* Does text contain sub (Python's `sub in text`)?
Contains(text, sub) ==
    \E i \in 1..(Len(text) - Len(sub) + 1) :
        \A k \in 1..Len(sub) : text[i + k - 1] = sub[k]

\* The argument is str(flexibility_text): "None" for a null value.
normalize_flexibility_mut_swapped(flexibility_text) ==
    LET text == Lower(flexibility_text)
    IN  IF Contains(text, <<"r","e","m","o","t","e">>) THEN 0
        ELSE IF Contains(text, <<"h","y","b","r","i","d">>) THEN 2
        ELSE IF Contains(text, <<"o","n","-","s","i","t","e">>)
                \/ Contains(text, <<"o","n","s","i","t","e">>) THEN 1
        ELSE 3

normalize_flexibility_mut_unknownonsite(flexibility_text) ==
    LET text == Lower(flexibility_text)
    IN  IF Contains(text, <<"r","e","m","o","t","e">>) THEN 0
        ELSE IF Contains(text, <<"h","y","b","r","i","d">>) THEN 1
        ELSE 2

normalize_flexibility(flexibility_text) ==
    LET text == Lower(flexibility_text)
    IN  IF Contains(text, <<"r","e","m","o","t","e">>) THEN 0
        ELSE IF Contains(text, <<"h","y","b","r","i","d">>) THEN 1
        ELSE IF Contains(text, <<"o","n","-","s","i","t","e">>)
                \/ Contains(text, <<"o","n","s","i","t","e">>) THEN 2
        ELSE 3

\* The fold of best_fuzzy_match's loop over the keys from position i on:
\* <<best_match_score, index of best_match_lang (0 for None)>>.
RECURSIVE BestFrom_mut_first(_, _, _, _, _)
BestFrom_mut_first(query, keys, i, best_score, best_idx) ==
    IF i > Len(keys) THEN <<best_score, best_idx>>
    ELSE CHOOSE best \in
            { IF score > best_score /\ best_idx = 0
              THEN BestFrom_mut_first(query, keys, i + 1, score, i)
              ELSE BestFrom_mut_first(query, keys, i + 1, best_score, best_idx)
              : score \in {RatioLower(query, keys[i])} } : TRUE

RECURSIVE BestFrom(_, _, _, _, _)
BestFrom(query, keys, i, best_score, best_idx) ==
    IF i > Len(keys) THEN <<best_score, best_idx>>
    ELSE CHOOSE best \in
            { IF score > best_score
              THEN BestFrom(query, keys, i + 1, score, i)
              ELSE BestFrom(query, keys, i + 1, best_score, best_idx)
              : score \in {RatioLower(query, keys[i])} } : TRUE

\* The index in employee_langs_dict of the key returned, 0 for None.
best_fuzzy_match(query_lang, employee_langs_dict, threshold) ==
    CHOOSE idx \in
        { IF best[1] >= threshold THEN best[2] ELSE 0
          : best \in {BestFrom(query_lang, Items(employee_langs_dict), 1, 0, 0)} } : TRUE

(***************************************************************************)
(* scorer.py: list-overlap scorers.                                        *)
(***************************************************************************)
\* `if isinstance(x, str): x = [x]`
AsList(x) == IF x.t = "str" THEN List(<<x.v>>) ELSE x

Iterable(x) == x.t \in {"list", "dict"}

\* The first employee item that fuzzy-matches p, 0 when there is none.
FirstMatch(p, items) ==
    CHOOSE first \in
        { IF found = {} THEN 0 ELSE CHOOSE j \in found : \A k \in found : j <= k
          : found \in { {j \in 1..Len(items) : fuzzy_match(p, items[j])} } } : TRUE

\* FirstMatch of every project item from position i on, in order.
RECURSIVE FirstMatches(_, _, _)
FirstMatches(ps, es, i) ==
    IF i > Len(ps) THEN <<>>
    ELSE <<FirstMatch(ps[i], es)>> \o FirstMatches(ps, es, i + 1)

\* The score and the log of the loop, hit[i] being the match of ps[i].
OverlapResult_mut_offered(ps, es, hit) ==
    LET matches == Cardinality({i \in 1..Len(ps) : hit[i] # 0})
        details == [i \in 1..Len(ps) |->
                      IF hit[i] # 0 THEN <<"Matched", ps[i], es[hit[i]]>>
                      ELSE <<"No match", ps[i]>>]
    IN  Ret(RoundDiv(1000 * matches, Len(es)), details)

OverlapResult(ps, es, hit) ==
    LET matches == Cardinality({i \in 1..Len(ps) : hit[i] # 0})
        details == [i \in 1..Len(ps) |->
                      IF hit[i] # 0 THEN <<"Matched", ps[i], es[hit[i]]>>
                      ELSE <<"No match", ps[i]>>]
    IN  Ret(RoundDiv(1000 * matches, Len(ps)), details)

\* The loop shared by product_score, certification_score and expertise_score.
OverlapLoop(project_items, employee_items) ==
    IF ~Iterable(project_items) \/ ~Iterable(employee_items)
    THEN Raise("TypeError")
    ELSE CHOOSE result \in
            { OverlapResult(ps, es, hit)
              : <<ps, es, hit>> \in
                  { <<Items(project_items), Items(employee_items),
                      FirstMatches(Items(project_items), Items(employee_items), 1)>> } } : TRUE

product_score_mut_emptyzero(project_products, employee_products) ==
    IF ~Truthy(employee_products)
    THEN Ret(0, <<"Employee has no listed product experience.">>)
    ELSE IF ~Truthy(project_products)
    THEN Ret(1000, <<"No specific products required by project.">>)
    ELSE OverlapLoop(AsList(project_products), AsList(employee_products))

product_score(project_products, employee_products) ==
    IF ~Truthy(project_products)
    THEN Ret(1000, <<"No specific products required by project.">>)
    ELSE IF ~Truthy(employee_products)
    THEN Ret(0, <<"Employee has no listed product experience.">>)
    ELSE OverlapLoop(AsList(project_products), AsList(employee_products))

certification_score_mut_lenient(project_certs, employee_certs) ==
    IF ~Truthy(project_certs)
    THEN Ret(1000, <<"No specific certifications required by project.">>)
    ELSE IF ~Truthy(employee_certs)
    THEN Ret(1000, <<"Employee has no listed certifications.">>)
    ELSE OverlapLoop(AsList(project_certs), AsList(employee_certs))

certification_score(project_certs, employee_certs) ==
    IF ~Truthy(project_certs)
    THEN Ret(1000, <<"No specific certifications required by project.">>)
    ELSE IF ~Truthy(employee_certs)
    THEN Ret(0, <<"Employee has no listed certifications.">>)
    ELSE OverlapLoop(AsList(project_certs), AsList(employee_certs))

expertise_score(project_expertise, employee_expertise) ==
    IF ~Truthy(project_expertise)
    THEN Ret(1000, <<"No specific expertise areas required by project.">>)
    ELSE IF ~Truthy(employee_expertise)
    THEN Ret(0, <<"Employee has no listed expertise areas.">>)
    ELSE OverlapLoop(AsList(project_expertise), AsList(employee_expertise))

\* str(x) of a label-valued field: the text, or "None" for a null value.
StrOf(x) == IF x.t = "str" THEN x.v ELSE <<"N","o","n","e">>

\* project_industry is a str or null; `not text1` guards fuzzy_match.
industry_score(project_industry, employee_industries) ==
    IF ~Truthy(project_industry)
    THEN Ret(1000, <<"No specific industry required by project.">>)
    ELSE IF ~Truthy(employee_industries)
    THEN Ret(0, <<"Employee has no listed industry experience.">>)
    ELSE LET inds == AsList(employee_industries)
         IN  IF ~Iterable(inds) THEN Raise("TypeError")
             ELSE CHOOSE result \in
                     { IF hit # 0
                       THEN Ret(1000, <<<<"Industries", project_industry.v, Items(inds)>>,
                                        <<"Match", project_industry.v, Items(inds)[hit]>>>>)
                       ELSE Ret(0, <<<<"Industries", project_industry.v, Items(inds)>>,
                                     <<"No industry match found.">>>>)
                       : hit \in {FirstMatch(project_industry.v, Items(inds))} } : TRUE

(***************************************************************************)
(* scorer.py: language scorer.                                             *)
(***************************************************************************)
UpperChar(c) ==
    CASE c = "a" -> "A" [] c = "b" -> "B" [] c = "c" -> "C" [] c = "d" -> "D"
      [] c = "e" -> "E" [] c = "f" -> "F" [] c = "g" -> "G" [] c = "h" -> "H"
      [] c = "i" -> "I" [] c = "j" -> "J" [] c = "k" -> "K" [] c = "l" -> "L"
      [] c = "m" -> "M" [] c = "n" -> "N" [] c = "o" -> "O" [] c = "p" -> "P"
      [] c = "q" -> "Q" [] c = "r" -> "R" [] c = "s" -> "S" [] c = "t" -> "T"
      [] c = "u" -> "U" [] c = "v" -> "V" [] c = "w" -> "W" [] c = "x" -> "X"
      [] c = "y" -> "Y" [] c = "z" -> "Z"
      [] OTHER -> c

RECURSIVE Upper(_)
Upper(s) == IF s = <<>> THEN <<>> ELSE <<UpperChar(Head(s))>> \o Upper(Tail(s))

\* cefr_scale.get(key, 0): the keys are spelled as in the source.
cefr_scale(key) ==
    CASE key = <<"A","1">> -> 1 [] key = <<"A","2">> -> 2
      [] key = <<"B","1">> -> 3 [] key = <<"B","2">> -> 4
      [] key = <<"C","1">> -> 5 [] key = <<"C","2">> -> 6
      [] key = <<"N","a","t","i","v","e">> -> 6
      [] OTHER -> 0

\* cefr_scale.get(str(level_str).strip().upper(), 0), levels being labels.
cefr_to_numerical(level_str) == cefr_scale(Upper(level_str))

\* dict[key] by position.
KeyAt(d, i) == d.v[i][1]
ValAt(d, i) == d.v[i][2]

\* Positions of the required entries that matched, with the matched position.
\* `if matched_lang_key:` also drops a matched key that is the empty str.
RECURSIVE MatchedFrom(_, _, _, _)
MatchedFrom(required, offered, threshold, i) ==
    IF i > Len(required.v) THEN <<>>
    ELSE (CHOOSE h \in
            { IF k # 0 /\ Len(KeyAt(offered, k)) > 0 THEN <<k>> ELSE <<0>>
              : k \in {best_fuzzy_match(KeyAt(required, i), offered, threshold)} } : TRUE)
         \o MatchedFrom(required, offered, threshold, i + 1)

MatchedIdx(required, offered, threshold) == MatchedFrom(required, offered, threshold, 1)

\* The matched positions, in the order of the requirement.
RECURSIVE PairsFrom(_, _)
PairsFrom(hit, i) ==
    IF i > Len(hit) THEN <<>>
    ELSE IF hit[i] # 0 THEN <<<<i, hit[i]>>>> \o PairsFrom(hit, i + 1)
    ELSE PairsFrom(hit, i + 1)

\* level_score of one matched pair, in sixths.
level_score_mut_binary(required_numeric, actual_numeric) ==
    IF actual_numeric >= required_numeric THEN 6 ELSE 0

level_score_mut_nofloor(required_numeric, actual_numeric) ==
    IF actual_numeric >= required_numeric THEN 6
    ELSE 6 - (required_numeric - actual_numeric) - 1

level_score(required_numeric, actual_numeric) ==
    IF actual_numeric >= required_numeric THEN 6
    ELSE IF required_numeric > 0
         THEN Max2(0, 6 - (required_numeric - actual_numeric))
         ELSE 0

\* Lines 84-115: the score and the log, hit[i] being the match of entry i.
LanguageResult(project_langs, employee_langs, hit) ==
    LET pairs == PairsFrom(hit, 1)
        n     == Len(project_langs.v)
        log   == [i \in 1..n |->
                    IF hit[i] # 0
                    THEN <<"Matched", project_langs.v[i], employee_langs.v[hit[i]]>>
                    ELSE <<"No suitable match", project_langs.v[i]>>]
        level_scores ==
            [j \in 1..Len(pairs) |->
                level_score(
                  cefr_to_numerical(ValAt(project_langs, pairs[j][1])),
                  cefr_to_numerical(ValAt(employee_langs, pairs[j][2])))]
        final == RoundDiv(1000 * SumSeq(level_scores), 6 * n)
    IN  IF pairs = <<>>
        THEN Ret(0, log \o <<<<"No language matches found.">>>>)
        ELSE Ret(final,
                 log \o <<<<"Coverage", Len(pairs), n>>,
                          <<"Fit", level_scores>>,
                          <<"Final", final>>>>)

calculate_language_coverage(project_langs, employee_langs) ==
    IF ~Truthy(project_langs)
    THEN Ret(1000, <<"No specific languages required by project.">>)
    ELSE IF ~Truthy(employee_langs)
    THEN Ret(0, <<"Employee has no listed language proficiency.">>)
    ELSE IF project_langs.t # "dict" \/ employee_langs.t # "dict"
    THEN Raise("AttributeError")
    ELSE CHOOSE result \in
            { LanguageResult(project_langs, employee_langs, hit)
              : hit \in {MatchedIdx(project_langs, employee_langs, 70)} } : TRUE

language_score(project_langs_dict, employee_langs_dict) ==
    calculate_language_coverage(project_langs_dict, employee_langs_dict)

(***************************************************************************)
(* scorer.py: skill-capability scorer.                                     *)
(***************************************************************************)
IsNumber(x) == x.t = "num"

\* individual_skill_score of one matched pair of numeric levels, in tenths.
individual_skill_score_mut_floor(required, actual) ==
    IF actual >= required THEN 10 ELSE Max2(5, 10 - (required - actual))

individual_skill_score(required, actual) ==
    IF actual >= required THEN 10 ELSE 10 - (required - actual)

\* Lines 401-410: capability = fit_sum / (10 * n_required), target =
\* complexity / 10, so capability >= target iff fit_sum >= complexity * n and
\* capability / target = fit_sum / (complexity * n). The result is in
\* thousandths; target 0 in the else branch divides by zero.
final_score_mut_strict(fit_sum, n_required, complexity) ==
    IF fit_sum > complexity * n_required THEN Ret(1000, <<"Final Score: 1.0">>)
    ELSE IF complexity = 0 THEN Raise("ZeroDivisionError")
    ELSE Ret(10 * RoundDiv(100 * fit_sum, complexity * n_required),
             <<"Final Score", fit_sum, complexity * n_required>>)

final_score(fit_sum, n_required, complexity) ==
    IF fit_sum >= complexity * n_required THEN Ret(1000, <<"Final Score: 1.0">>)
    ELSE IF complexity = 0 THEN Raise("ZeroDivisionError")
    ELSE Ret(10 * RoundDiv(100 * fit_sum, complexity * n_required),
             <<"Final Score", fit_sum, complexity * n_required>>)

\* len() of the text json.dumps gives for a list of labels or for a dict
\* from labels to levels (numbers up to two digits, or labels).
RECURSIVE JsonTextLen(_)
JsonTextLen(x) ==
    LET item(e) == IF x.t = "dict"
                   THEN Len(e[1]) + 4
                        + (IF e[2].t = "num"
                           THEN (IF e[2].v < 10 THEN 1 ELSE 2)
                           ELSE Len(e[2].v) + 2)
                   ELSE Len(e) + 2
        n == Len(x.v)
    IN  2 + SumSeq([i \in 1..n |-> item(x.v[i])]) + (IF n > 1 THEN 2 * (n - 1) ELSE 0)

\* len(x) if x else 0, of the first log line (x not a number).
LenOrZero(x) ==
    IF ~Truthy(x) THEN 0
    ELSE IF x.t = "json" THEN JsonTextLen(x.v)
    ELSE Len(x.v)

\* Levels are compared and subtracted as numbers: a level that is not a
\* number raises TypeError against a numeric one (the inputs pair a
\* non-numeric level only with a numeric one).
\* Lines 373-412: the score and the log, hit[i] being the match of skill i.
SkillResult(project_skills_dict, core_competency_dict, complexity, head, hit) ==
    LET pairs == PairsFrom(hit, 1)
        n     == Len(project_skills_dict.v)
        log   == [i \in 1..n |->
                    IF hit[i] # 0
                    THEN <<"Match", project_skills_dict.v[i],
                           core_competency_dict.v[hit[i]]>>
                    ELSE <<"No Match", project_skills_dict.v[i]>>]
        required(j) == ValAt(project_skills_dict, pairs[j][1])
        actual(j)   == ValAt(core_competency_dict, pairs[j][2])
        expertise_scores ==
            [j \in 1..Len(pairs) |->
                individual_skill_score(required(j).v, actual(j).v)]
        fit_sum == SumSeq(expertise_scores)
        final   == final_score(fit_sum, n, complexity)
    IN  IF pairs = <<>>
        THEN Ret(0, head \o log
                    \o <<<<"No skill matches found (or inputs were empty).">>>>)
        ELSE IF \E j \in 1..Len(pairs) :
                   ~IsNumber(required(j)) \/ ~IsNumber(actual(j))
        THEN Raise("TypeError")
        ELSE IF final.exc # "" THEN final
        ELSE Ret(final.score,
                 head \o log
                 \o <<<<"Coverage", Len(pairs), n>>,
                      <<"Expertise Fit", expertise_scores>>,
                      <<"Capability", fit_sum, 10 * n>>,
                      <<"Complexity Target", complexity>>>>
                 \o <<final.details>>)

skill_match_score_with_fuzzy_keys_mut_emptyok(project_skills_dict, project_complexity_int, core_competency_dict) ==
    IF ~Truthy(project_skills_dict)
    THEN Ret(1000, <<"No specific skills required by project.">>)
    ELSE Ret(0, <<"No skill matches found (or inputs were empty).">>)

skill_match_score_with_fuzzy_keys(project_skills_dict, project_complexity_int, core_competency_dict) ==
    LET valid      == IsNumber(project_complexity_int)
        complexity == IF valid THEN Max2(0, Min2(10, project_complexity_int.v)) ELSE 5
        head == <<<<"Counts", LenOrZero(project_skills_dict),
                    LenOrZero(core_competency_dict), complexity>>>>
    IN  IF \/ Truthy(project_skills_dict) /\ project_skills_dict.t = "num"
           \/ Truthy(core_competency_dict) /\ core_competency_dict.t = "num"
        THEN Raise("TypeError")
        ELSE IF ~(Truthy(project_skills_dict) /\ Truthy(core_competency_dict))
        THEN Ret(0, head
                    \o <<<<IF ~Truthy(project_skills_dict)
                           THEN "No specific skills required by project."
                           ELSE "Employee has no listed core competencies.">>>>
                    \o <<<<"No skill matches found (or inputs were empty).">>>>)
        ELSE IF project_skills_dict.t # "dict" \/ core_competency_dict.t # "dict"
        THEN Raise("AttributeError")
        ELSE CHOOSE result \in
                { SkillResult(project_skills_dict, core_competency_dict, complexity, h, hit)
                  : <<h, hit>> \in
                      { <<head, MatchedIdx(project_skills_dict, core_competency_dict, 70)>> } } : TRUE

(***************************************************************************)
(* scorer.py: location scorer.                                             *)
(***************************************************************************)
\* fuzzy_match of two label-valued fields: a null one never matches.
LocMatch(project_loc, employee_loc) ==
    /\ project_loc.t = "str"
    /\ employee_loc.t = "str"
    /\ fuzzy_match(project_loc.v, employee_loc.v)

location_score(project_loc, project_flex, employee_loc, employee_flex) ==
    LET p_flex_norm == normalize_flexibility(StrOf(project_flex))
        e_flex_norm == normalize_flexibility(StrOf(employee_flex))
        head == <<"Flex", p_flex_norm, e_flex_norm>>
    IN  IF p_flex_norm = 0
        THEN Ret(1000, <<head, <<"Match: Project remote", e_flex_norm>>>>)
        ELSE IF p_flex_norm = 2
        THEN IF LocMatch(project_loc, employee_loc)
             THEN IF e_flex_norm = 2
                  THEN Ret(1000, <<head, <<"Match: Project on-site, Employee on-site">>>>)
                  ELSE IF e_flex_norm = 1
                  THEN Ret(500, <<head, <<"Partial Match: Project on-site, Employee hybrid">>>>)
                  ELSE Ret(0, <<head, <<"Mismatch: Project on-site, Employee remote">>>>)
             ELSE Ret(0, <<head, <<"Mismatch: Project on-site, Locations do not match.">>>>)
        ELSE IF p_flex_norm = 1
        THEN IF LocMatch(project_loc, employee_loc)
             THEN IF e_flex_norm = 1
                  THEN Ret(1000, <<head, <<"Match: Project hybrid, Employee hybrid">>>>)
                  ELSE IF e_flex_norm = 0
                  THEN Ret(0, <<head, <<"Mismatch: Project hybrid, Employee remote">>>>)
                  ELSE IF e_flex_norm = 2
                  THEN Ret(1000, <<head, <<"Match: Project hybrid, Employee on-site">>>>)
                  ELSE Ret(0, <<head, <<"Unknown project/employee flexibility, low score.">>>>)
             ELSE Ret(0, <<head, <<"Mismatch: Project hybrid, Locations mismatch", e_flex_norm = 0>>>>)
        ELSE Ret(0, <<head, <<"Unknown project/employee flexibility, low score.">>>>)

(***************************************************************************)
(* scorer.py: availability projector.                                      *)
(***************************************************************************)
HOURS_PER_WORKDAY == 8
MinutesPerDay == 1440          \* a timedelta day, in minutes
FarFutureDays == 365 * 5       \* timedelta(days=365*5)
max_acceptable_overrun_days == 30

\* A str that dateutil parses, to the instant v (aware: with a UTC offset).
DateStr(v, aware) == [t |-> "date", v |-> v, aware |-> aware]
\* A datetime object.
Datetime(v, aware) == [t |-> "datetime", v |-> v, aware |-> aware]

IsDigit(c) == c \in {"0", "1", "2", "3", "4", "5", "6", "7", "8", "9"}
DigitVal(c) ==
    CASE c = "0" -> 0 [] c = "1" -> 1 [] c = "2" -> 2 [] c = "3" -> 3
      [] c = "4" -> 4 [] c = "5" -> 5 [] c = "6" -> 6 [] c = "7" -> 7
      [] c = "8" -> 8 [] c = "9" -> 9
IsDigits(s) == Len(s) > 0 /\ \A i \in 1..Len(s) : IsDigit(s[i])
RECURSIVE IntOfDigits(_)
IntOfDigits(s) ==
    IF s = <<>> THEN 0
    ELSE 10 * IntOfDigits(SubSeq(s, 1, Len(s) - 1)) + DigitVal(s[Len(s)])

\* float(x if x is not None else 0) inside try/except ValueError:
\* <<value, exception that escapes the inner try>>.
ToFloat_mut_default(x) ==
    CASE x.t \in {"none", "missing"} -> <<40, "">>
      [] x.t = "num" -> <<x.v, "">>
      [] x.t = "str" -> IF IsDigits(x.v) THEN <<IntOfDigits(x.v), "">> ELSE <<0, "">>
      [] x.t \in {"date", "json"} -> <<0, "">>
      [] OTHER -> <<0, "TypeError">>

ToFloat(x) ==
    CASE x.t \in {"none", "missing"} -> <<0, "">>
      [] x.t = "num" -> <<x.v, "">>
      [] x.t = "str" -> IF IsDigits(x.v) THEN <<IntOfDigits(x.v), "">> ELSE <<0, "">>
      [] x.t \in {"date", "json"} -> <<0, "">>
      [] OTHER -> <<0, "TypeError">>

\* The parse of a date input: <<datetime or None, exception>>.
\* A number is read as epoch milliseconds (the number 60000 * v is v minutes).
ParseDate(x) ==
    CASE x.t = "num" -> <<Datetime(x.v, FALSE), "">>
      [] x.t = "date" -> <<Datetime(x.v, x.aware), "">>
      [] x.t \in {"str", "json"} -> <<None, "ParserError">>
      [] OTHER -> <<None, "">>

details_dict0(effort, end_input, available_input, capacity) ==
    [ raw_project_effort_hours |-> effort,
      raw_project_end_input |-> end_input,
      parsed_project_end_date |-> None,
      raw_employee_available_from_input |-> available_input,
      parsed_employee_available_date |-> None,
      raw_employee_weekly_capacity |-> capacity,
      project_effort_calculated_days |-> 0,
      employee_weekly_capacity_hours |-> 0,
      calculated_project_end_for_employee |-> None,
      days_over_under |-> 0,
      status_message |-> "" ]

\* Lines 199-223, for parsed dates, capacity > 0 and effort > 0.
\* calendar_days_needed is in minutes: effort / capacity * 7 * 1440.
Projection(dd, project_end_date, employee_available_date, effort, capacity) ==
    LET calendar_minutes_needed == RoundHalfEven(7 * MinutesPerDay * effort, capacity)
        calculated == Datetime(employee_available_date.v + calendar_minutes_needed,
                               employee_available_date.aware)
        d1 == [dd EXCEPT !.calculated_project_end_for_employee = calculated]
        days == (calculated.v - project_end_date.v) \div MinutesPerDay
    IN  IF calculated.aware # project_end_date.aware
        THEN Ret(0, [d1 EXCEPT !.status_message = "Error in availability_score: TypeError"])
        ELSE IF calculated.v <= project_end_date.v
        THEN Ret(1000, [d1 EXCEPT !.status_message = "Employee can complete on time.",
                                  !.days_over_under = days])
        ELSE Ret(Max2(0, RoundDiv(1000 * (max_acceptable_overrun_days - days),
                                  max_acceptable_overrun_days)),
                 [d1 EXCEPT !.status_message = "Employee may not complete on time.",
                            !.days_over_under = days])

availability_score(project_effort_input_hours, project_end_input, employee_available_from_input, employee_weekly_capacity) ==
    LET dd0 == details_dict0(project_effort_input_hours, project_end_input,
                             employee_available_from_input, employee_weekly_capacity)
        far  == Datetime(now + FarFutureDays * MinutesPerDay, FALSE)
        pe   == ParseDate(project_end_input)
        project_end_date == IF pe[1].t = "datetime" THEN pe[1] ELSE far
        dd1  == [dd0 EXCEPT !.parsed_project_end_date = project_end_date,
                            !.status_message =
                               IF pe[1].t = "datetime" THEN ""
                               ELSE IF project_end_input.t \in {"none", "missing"}
                               THEN "Project end date not specified, assuming far future."
                               ELSE "Project end date format invalid or missing, assuming far future."]
        ea   == ParseDate(employee_available_from_input)
        dd2  == [dd1 EXCEPT !.parsed_employee_available_date = ea[1]]
        cap  == ToFloat(employee_weekly_capacity)
        dd3  == [dd2 EXCEPT !.employee_weekly_capacity_hours = cap[1]]
        eff  == ToFloat(project_effort_input_hours)
        dd4  == [dd3 EXCEPT !.raw_project_effort_hours = Num(eff[1]),
                            !.project_effort_calculated_days =
                               (1000 * eff[1]) \div HOURS_PER_WORKDAY]
    IN  IF pe[2] # ""
        THEN Ret(0, [dd0 EXCEPT !.status_message = "Error in availability_score: ParserError"])
        ELSE IF employee_available_from_input.t \in {"none", "missing"}
        THEN Ret(0, [dd1 EXCEPT !.status_message = "Employee available from date not specified."])
        ELSE IF ea[2] # ""
        THEN Ret(0, [dd1 EXCEPT !.status_message = "Error in availability_score: ParserError"])
        ELSE IF ea[1].t # "datetime"
        THEN Ret(0, [dd1 EXCEPT !.status_message = "Employee available from date format invalid."])
        ELSE IF cap[2] # ""
        THEN Ret(0, [dd2 EXCEPT !.status_message = "Error in availability_score: TypeError"])
        ELSE IF eff[2] # ""
        THEN Ret(0, [dd3 EXCEPT !.status_message = "Error in availability_score: TypeError"])
        ELSE IF cap[1] <= 0
        THEN Ret(0, [dd4 EXCEPT !.status_message = "Employee weekly capacity is zero or not specified."])
        ELSE IF eff[1] <= 0
        THEN Ret(1000, [dd4 EXCEPT !.status_message = "Project effort is zero or not specified (considered fully available)."])
        ELSE Projection(dd4, project_end_date, ea[1], eff[1], cap[1])

(***************************************************************************)
(* scorer.py: orchestration.                                               *)
(***************************************************************************)
\* A str in brackets or braces that is not the json tag is one json.loads rejects.
LooksJson(text) ==
    /\ Len(text) >= 1
    /\ \/ text[1] = "[" /\ text[Len(text)] = "]"
       \/ text[1] = "{" /\ text[Len(text)] = "}"

\* Every call site passes default_value ([] or {}), so lines 472-478 never run.
safely_get_and_parse_json_field(record, field_name, default_value) ==
    LET val == Get(record, field_name, default_value)
    IN  IF val.t = "json" THEN val.v
        ELSE IF val.t = "str" /\ LooksJson(val.v)
        THEN (IF default_value.t = "list" THEN List(<<val.v>>) ELSE val)
        ELSE IF val.t = "none" THEN default_value
        ELSE val

\* Lines 552-559: the complexity handed to the skill scorer.
project_complexity_val(project_record) ==
    LET val == Get(project_record, "Complexity", None)
        n   == IF val.t = "num" THEN val.v
               ELSE IF val.t = "str" /\ IsDigits(val.v) THEN IntOfDigits(val.v)
               ELSE 5
    IN  Max2(0, Min2(10, n))

\* Lines 621-630: one self-rated trait.
trait_score(employee_record, field_name) ==
    LET value == Get(employee_record, field_name, Num(0))
    IN  IF value.t # "num" THEN Raise("TypeError")
        ELSE Ret(normalize(value.v, 0, 10), <<"Raw", value.v>>)

\* Lines 591-593: the relevance value passes through raw; the format raises
\* on a value that is not a number.
retriever_score(employee_record) ==
    LET value == Get(employee_record, "document_score", Num(0))
    IN  IF value.t = "num" THEN Ret(value.v, <<"Raw document_score", value.v>>)
        ELSE IF value.t \in {"str", "json", "date"} THEN Raise("ValueError")
        ELSE Raise("TypeError")

ScoreNames ==
    { "AvailabilityScore", "IsFullyAvailable", "ProductScore", "LocationScore",
      "LanguageScore", "IndustryScore", "SkillMatchScore", "CertificationScore",
      "RetrieverScore", "ExpertiseScore", "CulturalAwarenessScore",
      "ProblemSolvingScore", "LeadershipScore" }

\* The sum of f over the finite set S.
RECURSIVE SumOver(_, _)
SumOver(S, f) ==
    IF S = {} THEN 0
    ELSE LET x == CHOOSE y \in S : TRUE
         IN  f[x] + SumOver(S \ {x}, f)

\* Lines 638-641: the names of the weight table that are weighted. Every
\* entry of Scores is a number once line 630 is passed.
AppliedNames(Scores, active_scoring_weights) ==
    DOMAIN active_scoring_weights \cap DOMAIN Scores

\* Lines 632-655, in ten-thousandths; weights are in hundredths.
OverallWeightedScore_mut_fixed(Scores, active_scoring_weights) ==
    LET applied == AppliedNames(Scores, active_scoring_weights)
        overall_score_sum == SumOver(applied,
            [k \in applied |-> Scores[k] * active_scoring_weights[k]])
        total_weight == SumOver(DOMAIN active_scoring_weights, active_scoring_weights)
    IN  IF total_weight > 0
        THEN RoundDiv(10 * overall_score_sum, total_weight)
        ELSE 0

OverallWeightedScore_mut_truncated(Scores, active_scoring_weights) ==
    LET applied == AppliedNames(Scores, active_scoring_weights)
        overall_score_sum == SumOver(applied,
            [k \in applied |-> Scores[k] * active_scoring_weights[k]])
        total_weight_applied == SumOver(applied,
            [k \in applied |-> active_scoring_weights[k]])
    IN  IF total_weight_applied > 0
        THEN (10 * overall_score_sum) \div total_weight_applied
        ELSE 0

OverallWeightedScore_mut_defaultone(Scores, active_scoring_weights) ==
    LET applied == AppliedNames(Scores, active_scoring_weights)
        overall_score_sum == SumOver(applied,
            [k \in applied |-> Scores[k] * active_scoring_weights[k]])
        total_weight_applied == SumOver(applied,
            [k \in applied |-> active_scoring_weights[k]])
    IN  IF total_weight_applied > 0
        THEN RoundDiv(10 * overall_score_sum, total_weight_applied)
        ELSE 10000

OverallWeightedScore(Scores, active_scoring_weights) ==
    LET applied == AppliedNames(Scores, active_scoring_weights)
        overall_score_sum == SumOver(applied,
            [k \in applied |-> Scores[k] * active_scoring_weights[k]])
        total_weight_applied == SumOver(applied,
            [k \in applied |-> active_scoring_weights[k]])
    IN  IF total_weight_applied > 0
        THEN RoundDiv(10 * overall_score_sum, total_weight_applied)
        ELSE 0

\* The factor results of one call, in the order the source computes them.
FactorResults(employee_record, project_record) ==
    LET project_end_val ==
            IF Get(project_record, "Requested End Date", None).t = "none"
            THEN Get(project_record, "Requested End", None)
            ELSE Get(project_record, "Requested End Date", None)
        avail == availability_score(
                    Get(project_record, "Effort", None),
                    project_end_val,
                    Get(employee_record, "Available From", None),
                    Get(employee_record, "Weekly Availability in Hours", None))
        prod == product_score(
                    safely_get_and_parse_json_field(project_record, "Products Involved", List(<<>>)),
                    safely_get_and_parse_json_field(employee_record, "Products Experience", List(<<>>)))
        loc == location_score(
                    Get(project_record, "Work Location", None),
                    Get(project_record, "Work Flexibility", None),
                    Get(employee_record, "Work Location", None),
                    Get(employee_record, "Work Flexibility", None))
        lang == language_score(
                    safely_get_and_parse_json_field(project_record, "Languages Required", Dict(<<>>)),
                    safely_get_and_parse_json_field(employee_record, "Languages Known", Dict(<<>>)))
        ind == industry_score(
                    Get(project_record, "Customer Industry", None),
                    safely_get_and_parse_json_field(employee_record, "Industry Experience", List(<<>>)))
        \* Lines 561-565 pass the raw fields, not proj_skills and emp_competencies.
        skill == skill_match_score_with_fuzzy_keys(
                    Get(project_record, "Required Skills and Expertise", Dict(<<>>)),
                    Num(project_complexity_val(project_record)),
                    Get(employee_record, "Core Competencies", Dict(<<>>)))
        cert == certification_score(
                    safely_get_and_parse_json_field(project_record, "Customer Preferences (Certifications)", List(<<>>)),
                    safely_get_and_parse_json_field(employee_record, "External/Internal Certifications", List(<<>>)))
        retr == retriever_score(employee_record)
        expe == expertise_score(
                    safely_get_and_parse_json_field(project_record, "Integration Requirements (Expertise Areas)", List(<<>>)),
                    safely_get_and_parse_json_field(employee_record, "Expertise Areas", List(<<>>)))
        cult == trait_score(employee_record, "Cultural Awareness")
        prob == trait_score(employee_record, "Problem Solving")
        lead == trait_score(employee_record, "Leadership")
    IN  << <<"AvailabilityScore", avail>>, <<"ProductScore", prod>>,
           <<"LocationScore", loc>>, <<"LanguageScore", lang>>,
           <<"IndustryScore", ind>>, <<"SkillMatchScore", skill>>,
           <<"CertificationScore", cert>>, <<"RetrieverScore", retr>>,
           <<"ExpertiseScore", expe>>, <<"CulturalAwarenessScore", cult>>,
           <<"ProblemSolvingScore", prob>>, <<"LeadershipScore", lead>> >>

\* Lines 494-499 and 632-658: the report built from the factor results fr;
\* exc names the exception when the call raises (the first factor, in the
\* source's order, that raises).
BuildReport(fr, employee_record, project_record, custom_weights) ==
    LET failed == {i \in 1..Len(fr) : fr[i][2].exc # ""}
        of(name) == fr[CHOOSE i \in 1..Len(fr) : fr[i][1] = name][2]
        Scores == [k \in ScoreNames |->
                     IF k = "IsFullyAvailable"
                     THEN (IF of("AvailabilityScore").score = 1000 THEN 1000 ELSE 0)
                     ELSE of(k).score]
        active_scoring_weights ==
            IF custom_weights.t # "none" THEN custom_weights.v ELSE SCORING_WEIGHTS
        applied == AppliedNames(Scores, active_scoring_weights)
        Details == [k \in (ScoreNames \ {"IsFullyAvailable"})
                             \cup {"OverallWeightedScoreCalculation"} |->
                      IF k = "OverallWeightedScoreCalculation"
                      THEN <<SumOver(applied, [n \in applied |-> Scores[n] * active_scoring_weights[n]]),
                             SumOver(applied, [n \in applied |-> active_scoring_weights[n]]),
                             OverallWeightedScore(Scores, active_scoring_weights)>>
                      ELSE of(k).details]
    IN  IF failed # {}
        THEN [ exc |-> fr[CHOOSE i \in failed : \A j \in failed : i <= j][2].exc,
               EmployeeID |-> Get(employee_record, "EmployeeID", None),
               ProjectID |-> Get(project_record, "ProjectID", None),
               Scores |-> <<>>, Details |-> <<>>, OverallWeightedScore |-> 0 ]
        ELSE [ exc |-> "",
               EmployeeID |-> Get(employee_record, "EmployeeID", None),
               ProjectID |-> Get(project_record, "ProjectID", None),
               Scores |-> Scores, Details |-> Details,
               OverallWeightedScore |-> OverallWeightedScore(Scores, active_scoring_weights) ]

\* The factor results are computed once and the report is built from them.
score_employee_against_project(employee_record, project_record, custom_weights) ==
    CHOOSE report \in
        { BuildReport(fr, employee_record, project_record, custom_weights)
            : fr \in {FactorResults(employee_record, project_record)} } : TRUE

(***************************************************************************)
(* config.py: the default weight table, in hundredths.                     *)
(***************************************************************************)
DefaultWeights ==
    [ SkillMatchScore |-> 25, AvailabilityScore |-> 15, ProductScore |-> 5,
      IndustryScore |-> 5, ExpertiseScore |-> 10, LanguageScore |-> 5,
      CertificationScore |-> 5, LocationScore |-> 0,
      CulturalAwarenessScore |-> 2, ProblemSolvingScore |-> 4,
      LeadershipScore |-> 4, RetrieverScore |-> 25 ]

(***************************************************************************)
(* The batch: generate_detailed_scores_for_candidates.                     *)
(***************************************************************************)
MaxTicks == 1        \* how many times the clock advances during a run
TickMinutes == MinutesPerDay    \* the clock advances by one day

T0 == 20000 * MinutesPerDay     \* the clock at the start of a run

\* One iteration of the loop of lines 663-673: the next candidate is scored
\* and its report appended; an exception leaves the function.
ScoreCandidate_mut_storeweights ==
    /\ pc = "scoring"
    /\ Len(reports) < Len(candidates)
    /\ \E r \in {score_employee_against_project(
                      candidates[Len(reports) + 1], project, custom)} :
          IF r.exc # ""
          THEN /\ pc' = "raised"
               /\ exception' = r.exc
               /\ reports' = reports
          ELSE /\ pc' = "scoring"
               /\ exception' = exception
               /\ reports' = Append(reports, r)
    /\ SCORING_WEIGHTS' = IF custom.t # "none" THEN custom.v ELSE SCORING_WEIGHTS
    /\ UNCHANGED <<project, candidates, custom, now, tie_up, driver>>

ScoreCandidate ==
    /\ pc = "scoring"
    /\ Len(reports) < Len(candidates)
    /\ \E r \in {score_employee_against_project(
                      candidates[Len(reports) + 1], project, custom)} :
          IF r.exc # ""
          THEN /\ pc' = "raised"
               /\ exception' = r.exc
               /\ reports' = reports
          ELSE /\ pc' = "scoring"
               /\ exception' = exception
               /\ reports' = Append(reports, r)
    /\ UNCHANGED <<project, candidates, custom, SCORING_WEIGHTS, now, tie_up, driver>>

\* Line 674: return all_scored_candidates.
Return ==
    /\ pc = "scoring"
    /\ Len(reports) = Len(candidates)
    /\ pc' = "returned"
    /\ UNCHANGED <<project, candidates, custom, SCORING_WEIGHTS, now, reports, exception, tie_up, driver>>

\* Time passes between two calls (datetime.now() is read by each call).
Tick ==
    /\ pc = "scoring"
    /\ now < T0 + MaxTicks * TickMinutes
    /\ now' = now + TickMinutes
    /\ UNCHANGED <<project, candidates, custom, SCORING_WEIGHTS, reports, pc, exception, tie_up, driver>>

Next == ScoreCandidate \/ Return \/ Tick

\* A run during which the clock does not advance.
NextCall == ScoreCandidate \/ Return

(***************************************************************************)
(* Inputs: labels, records and the sets the initial states are drawn from. *)
(***************************************************************************)
L_Python  == <<"P","y","t","h","o","n">>
L_Pyhton  == <<"P","y","h","t","o","n">>
L_Java    == <<"J","a","v","a">>
L_Cloud   == <<"C","l","o","u","d">>
L_SAP     == <<"S","A","P">>
L_AWS     == <<"A","W","S">>
L_Berlin  == <<"B","e","r","l","i","n">>
L_Bonn    == <<"B","o","n","n">>
L_English == <<"E","n","g","l","i","s","h">>
L_Englsh  == <<"E","n","g","l","s","h">>
L_German  == <<"G","e","r","m","a","n">>
L_Onsite  == <<"O","n","-","s","i","t","e">>
L_Hybrid  == <<"H","y","b","r","i","d">>
L_Remote  == <<"R","e","m","o","t","e">>
L_Empty   == <<>>
L_BadList == <<"[","S","A","P",",","]">>   \* in brackets, not JSON

MaxRequired == 2     \* the largest requirement list or mapping

\* The lists of at most n distinct items of S.
ListsOver(S, n) ==
    UNION { {l \in [1..k -> S] : \A i, j \in 1..k : i # j => l[i] # l[j]} : k \in 0..n }

\* The mappings of at most n entries with distinct keys of K and values of V.
DictsOver(K, V, n) ==
    UNION { {d \in [1..k -> K \X V] : \A i, j \in 1..k : i # j => d[i][1] # d[j][1]}
            : k \in 0..n }

ProjectFields ==
    { "ProjectID", "Requested End Date", "Requested End", "Effort",
      "Products Involved", "Work Location", "Work Flexibility",
      "Languages Required", "Customer Industry",
      "Required Skills and Expertise", "Complexity",
      "Customer Preferences (Certifications)",
      "Integration Requirements (Expertise Areas)" }

EmployeeFields ==
    { "EmployeeID", "Available From", "Weekly Availability in Hours",
      "Products Experience", "Work Location", "Work Flexibility",
      "Languages Known", "Industry Experience", "Core Competencies",
      "External/Internal Certifications", "Expertise Areas", "document_score",
      "Cultural Awareness", "Problem Solving", "Leadership" }

\* A record with the given fields set and every other field absent.
Record(fields, given) ==
    [f \in fields |-> IF f \in DOMAIN given THEN given[f] ELSE Missing]

With(record, field, value) == [record EXCEPT ![field] = value]

BaseProject ==
    Record(ProjectFields,
      [f \in { "ProjectID", "Requested End Date", "Effort", "Products Involved",
               "Work Location", "Work Flexibility", "Languages Required",
               "Customer Industry", "Required Skills and Expertise",
               "Complexity", "Customer Preferences (Certifications)",
               "Integration Requirements (Expertise Areas)" } |->
        CASE f = "ProjectID" -> Str(<<"P","1">>)
          [] f = "Requested End Date" -> DateStr(T0 + 60 * MinutesPerDay, FALSE)
          [] f = "Effort" -> Num(80)
          [] f = "Products Involved" -> List(<<L_SAP>>)
          [] f = "Work Location" -> Str(L_Berlin)
          [] f = "Work Flexibility" -> Str(L_Onsite)
          [] f = "Languages Required" -> Dict(<< <<L_English, <<"C","1">>>> >>)
          [] f = "Customer Industry" -> Str(L_Cloud)
          [] f = "Required Skills and Expertise" -> Dict(<< <<L_Cloud, Num(8)>> >>)
          [] f = "Complexity" -> Num(5)
          [] f = "Customer Preferences (Certifications)" -> List(<<L_AWS>>)
          [] f = "Integration Requirements (Expertise Areas)" -> List(<<L_Python>>)])

BaseEmployee ==
    Record(EmployeeFields,
      [f \in EmployeeFields |->
        CASE f = "EmployeeID" -> Str(<<"E","1">>)
          [] f = "Available From" -> DateStr(T0 + 10 * MinutesPerDay, FALSE)
          [] f = "Weekly Availability in Hours" -> Num(40)
          [] f = "Products Experience" -> List(<<L_SAP, L_Java>>)
          [] f = "Work Location" -> Str(L_Berlin)
          [] f = "Work Flexibility" -> Str(L_Hybrid)
          [] f = "Languages Known" -> Dict(<< <<L_English, <<"B","2">>>> >>)
          [] f = "Industry Experience" -> List(<<L_Cloud>>)
          [] f = "Core Competencies" -> Dict(<< <<L_Cloud, Num(10)>> >>)
          [] f = "External/Internal Certifications" -> List(<<L_AWS>>)
          [] f = "Expertise Areas" -> List(<<L_Pyhton>>)
          [] f = "document_score" -> Num(730)
          [] f = "Cultural Awareness" -> Num(8)
          [] f = "Problem Solving" -> Num(9)
          [] f = "Leadership" -> Num(3)])

\* The batch is called directly, not from main().
NoDriver == [pc |-> "unused"]

\* What every initial state shares.
InitRest ==
    /\ SCORING_WEIGHTS = DefaultWeights
    /\ now = T0
    /\ reports = <<>>
    /\ pc = "scoring"
    /\ exception = ""
    /\ tie_up \in BOOLEAN
    /\ driver = NoDriver

\* --- the skill family -----------------------------------------------------
SkillKeysRequired == {L_Python, L_Cloud, L_Java}
SkillKeysOffered  == {L_Pyhton, L_Cloud}
RequiredLevels    == {8, 10}
OfferedLevels     == {0, 7, 10}
Complexities      == {0, 5, 8, 10}

RequiredSkillValues ==
    {Missing, None}
    \cup {Dict(d) : d \in DictsOver(SkillKeysRequired, {Num(n) : n \in RequiredLevels}, MaxRequired)}
OfferedSkillValues ==
    {Missing, None}
    \cup {Dict(d) : d \in DictsOver(SkillKeysOffered, {Num(n) : n \in OfferedLevels}, MaxRequired)}

InitSkill ==
    /\ \E s \in RequiredSkillValues, c \in Complexities :
          project = With(With(BaseProject, "Required Skills and Expertise", s),
                         "Complexity", Num(c))
    /\ \E k \in OfferedSkillValues :
          candidates = <<With(BaseEmployee, "Core Competencies", k)>>
    /\ custom = None
    /\ InitRest

SpecSkill == InitSkill /\ [][NextCall]_vars

\* --- the list family: products, certifications, expertise, industries ------
RequiredLists == ListsOver({L_SAP, L_Python}, MaxRequired)
OfferedLists  == ListsOver({L_SAP, L_Pyhton, L_Java}, MaxRequired)

RequiredListValues ==
    {Missing, None, Str(L_Empty), Str(L_SAP), Str(L_BadList)}
    \cup {List(l) : l \in RequiredLists} \cup {Json(List(l)) : l \in RequiredLists}
OfferedListValues ==
    {Missing, None, Str(L_Empty), Str(L_SAP), Str(L_BadList)}
    \cup {List(l) : l \in OfferedLists} \cup {Json(List(l)) : l \in OfferedLists}

ListFieldPairs ==
    { <<"Products Involved", "Products Experience">>,
      <<"Customer Preferences (Certifications)", "External/Internal Certifications">>,
      <<"Integration Requirements (Expertise Areas)", "Expertise Areas">> }

RequiredIndustryValues == {Missing, None, Str(L_Empty), Str(L_SAP), Str(L_Python)}

InitList ==
    /\ \/ \E fp \in ListFieldPairs, r \in RequiredListValues, o \in OfferedListValues :
             /\ project = With(BaseProject, fp[1], r)
             /\ candidates = <<With(BaseEmployee, fp[2], o)>>
       \/ \E r \in RequiredIndustryValues, o \in OfferedListValues :
             /\ project = With(BaseProject, "Customer Industry", r)
             /\ candidates = <<With(BaseEmployee, "Industry Experience", o)>>
    /\ custom = None
    /\ InitRest

\* --- the language family ---------------------------------------------------
LangKeysRequired == {L_English, L_German}
LangKeysOffered  == {L_Englsh, L_German}
RequiredCefr     == {<<"A","2">>, <<"C","1">>, <<"C","2">>}
OfferedCefr      == {<<"A","1">>, <<"b","2">>, <<"C","2">>, <<"N","a","t","i","v","e">>}

RequiredLangDicts == DictsOver(LangKeysRequired, RequiredCefr, MaxRequired)
OfferedLangDicts  == DictsOver(LangKeysOffered, OfferedCefr, MaxRequired)

RequiredLangValues ==
    {Missing, None} \cup {Dict(d) : d \in RequiredLangDicts}
    \cup {Json(Dict(d)) : d \in RequiredLangDicts}
OfferedLangValues ==
    {Missing, None} \cup {Dict(d) : d \in OfferedLangDicts}
    \cup {Json(Dict(d)) : d \in OfferedLangDicts}

InitLang ==
    /\ \E r \in RequiredLangValues, o \in OfferedLangValues :
          /\ project = With(BaseProject, "Languages Required", r)
          /\ candidates = <<With(BaseEmployee, "Languages Known", o)>>
    /\ custom = None
    /\ InitRest

\* --- the availability family -----------------------------------------------
\* In a date field Num(v) is the number 60000 * v (v minutes as milliseconds).
EffortValues   == {Missing, None, Num(0), Num(80), Num(400), Str(<<"8","0">>)}
EndValues      == {Missing, None, DateStr(T0 + 60 * MinutesPerDay, FALSE),
                   DateStr(T0 + 20 * MinutesPerDay, FALSE),
                   DateStr(T0 + 60 * MinutesPerDay, TRUE),
                   Num(T0 + 30 * MinutesPerDay), Str(L_SAP), List(<<>>)}
AvailableValues == {Missing, None, DateStr(T0 + 10 * MinutesPerDay, FALSE),
                    Num(T0 + 10 * MinutesPerDay), Str(L_SAP), List(<<>>),
                    DateStr(T0 + 1830 * MinutesPerDay, FALSE)}
CapacityValues == {Missing, None, Num(0), Num(20), Num(40), Str(<<"4","0">>),
                   Str(L_SAP), List(<<>>)}

InitAvail ==
    /\ \E e \in EffortValues, d \in EndValues :
          project = With(With(BaseProject, "Effort", e), "Requested End Date", d)
    /\ \E a \in AvailableValues, c \in CapacityValues :
          candidates = <<With(With(BaseEmployee, "Available From", a),
                              "Weekly Availability in Hours", c)>>
    /\ custom = None
    /\ InitRest

\* --- the location family ---------------------------------------------------
FlexValues == {Missing, Str(L_Remote), Str(L_Hybrid), Str(L_Onsite),
               Str(<<"o","n","s","i","t","e">>), Str(L_SAP)}
LocValues  == {Missing, Str(L_Berlin), Str(L_Bonn)}

InitLoc ==
    /\ \E f \in FlexValues, l \in LocValues :
          project = With(With(BaseProject, "Work Flexibility", f), "Work Location", l)
    /\ \E f \in FlexValues, l \in LocValues :
          candidates = <<With(With(BaseEmployee, "Work Flexibility", f), "Work Location", l)>>
    /\ custom = None
    /\ InitRest

\* --- the trait family ------------------------------------------------------
TraitFields == {"Cultural Awareness", "Problem Solving", "Leadership"}
TraitValues == {Missing} \cup {Num(n) : n \in 0..10}

InitTrait ==
    /\ project = BaseProject
    /\ \E f \in TraitFields, v \in TraitValues :
          candidates = <<With(BaseEmployee, f, v)>>
    /\ custom = None
    /\ InitRest

\* --- the encoded family: skills as JSON-encoded strings ---------------------
EncodableRequired == {Dict(<< <<L_Cloud, Num(8)>> >>),
                      Dict(<< <<L_Cloud, Num(10)>>, <<L_Python, Num(8)>> >>)}
EncodableOffered  == {Dict(<<>>), Dict(<< <<L_Cloud, Num(10)>> >>),
                      Dict(<< <<L_Pyhton, Num(7)>> >>)}

InitJson ==
    /\ \E r \in EncodableRequired \cup {Json(d) : d \in EncodableRequired} :
          project = With(BaseProject, "Required Skills and Expertise", r)
    /\ \E o \in EncodableOffered \cup {Json(d) : d \in EncodableOffered} :
          candidates = <<With(BaseEmployee, "Core Competencies", o)>>
    /\ custom = None
    /\ InitRest

\* Every factor over its family, the other fields as in the base records.
InitFactors ==
    InitSkill \/ InitList \/ InitLang \/ InitAvail \/ InitLoc \/ InitTrait \/ InitJson

SpecFactors == InitFactors /\ [][NextCall]_vars

\* --- the aggregation family: weight tables passed as custom_weights ----------
WeightValues == {0, 25, 40}

WeightTables ==
    [{"SkillMatchScore", "YearsExperienceScore"} -> {0, 50}]
    \cup [{"SkillMatchScore", "AvailabilityScore", "RetrieverScore"} -> WeightValues]
    \cup [{"IsFullyAvailable", "LeadershipScore"} -> {10, 30}]
    \cup [{"ProjectComplexityScore"} -> {100}]
    \cup [{} -> WeightValues]        \* the empty table

AggEmployees ==
    { With(With(With(BaseEmployee, "Core Competencies", Dict(<< <<L_Cloud, Num(k)>> >>)),
                "document_score", Num(d)),
           "Weekly Availability in Hours", Num(c))
        : k \in {3, 10}, d \in {0, 730, 1200}, c \in {8, 40} }

InitAgg ==
    /\ project = With(BaseProject, "Complexity", Num(8))
    /\ \E e \in AggEmployees : candidates = <<e>>
    /\ custom \in {None} \cup {Weights(w) : w \in WeightTables}
    /\ InitRest

SpecAgg == InitAgg /\ [][NextCall]_vars

\* --- the batch: a roster of sound and malformed records ----------------------
MaxBatch == 2        \* the longest batch

Identified(record, id) == With(record, "EmployeeID", Str(id))

Roster ==
    { BaseEmployee,
      Identified(With(BaseEmployee, "Core Competencies", Dict(<< <<L_Cloud, Num(7)>> >>)),
                 <<"E","2">>),
      \* a trait rating that is text
      Identified(With(BaseEmployee, "Leadership", Str(<<"h","i","g","h">>)), <<"E","3">>),
      \* a relevance value that is text
      Identified(With(BaseEmployee, "document_score", Str(<<"0",".","7">>)), <<"E","4">>),
      \* languages as a plain string instead of a mapping
      Identified(With(BaseEmployee, "Languages Known", Str(L_English)), <<"E","5">>),
      \* a skill level that is text
      Identified(With(BaseEmployee, "Core Competencies",
                      Dict(<< <<L_Cloud, Str(<<"e","x","p","e","r","t">>)>> >>)),
                 <<"E","6">>) }

BatchProjects ==
    { BaseProject, With(BaseProject, "Requested End Date", Missing) }

Init ==
    /\ project \in BatchProjects
    /\ candidates \in UNION { [1..n -> Roster] : n \in 0..MaxBatch }
    /\ custom = None
    /\ InitRest

Spec == Init /\ [][Next]_vars

\* --- the wide language family: exact and misspelled keys, native levels -----
LangKeysKnown == {L_English, L_Englsh, L_German}
CefrRequired  == {<<"A","2">>, <<"C","1">>, <<"C","2">>, <<"N","a","t","i","v","e">>}
CefrKnown     == {<<"A","1">>, <<"B","2">>, <<"C","2">>, <<"N","a","t","i","v","e">>}

InitLangWide ==
    /\ \E r \in DictsOver(LangKeysRequired, CefrRequired, MaxRequired),
          o \in DictsOver(LangKeysKnown, CefrKnown, MaxRequired) :
          /\ project = With(BaseProject, "Languages Required", Dict(r))
          /\ candidates = <<With(BaseEmployee, "Languages Known", Dict(o))>>
    /\ custom = None
    /\ InitRest

SpecLang == InitLangWide /\ [][NextCall]_vars


\* --- the wide availability family: numbers in both units, negative capacity --
\* The instant T0 + 25 days is a whole number of thousands of minutes, so the
\* same instant given in epoch seconds is the number 60 * v = 60000 * (v / 1000).
SecondsForm(v) == Num(v \div 1000)

EffortsWide   == {Missing, None, Num(0), Num(80), Num(400), Str(L_SAP)}
EndsWide      == {Missing, None, DateStr(T0 + 60 * MinutesPerDay, FALSE),
                  DateStr(T0 + 20 * MinutesPerDay, FALSE),
                  DateStr(T0 + 60 * MinutesPerDay, TRUE),
                  Num(T0 + 25 * MinutesPerDay),
                  SecondsForm(T0 + 25 * MinutesPerDay), Str(L_SAP), List(<<>>)}
AvailablesWide == {Missing, None, DateStr(T0 + 10 * MinutesPerDay, FALSE),
                   DateStr(T0 + 10 * MinutesPerDay, TRUE),
                   Num(T0 + 25 * MinutesPerDay),
                   SecondsForm(T0 + 25 * MinutesPerDay), Str(L_SAP), List(<<>>)}
CapacitiesWide == {Missing, None, Num(0), Num(0 - 8), Num(20), Num(40),
                   Str(L_SAP), List(<<>>)}

InitAvailWide ==
    /\ \E e \in EffortsWide, d \in EndsWide :
          project = With(With(BaseProject, "Effort", e), "Requested End Date", d)
    /\ \E a \in AvailablesWide, c \in CapacitiesWide :
          candidates = <<With(With(BaseEmployee, "Available From", a),
                              "Weekly Availability in Hours", c)>>
    /\ custom = None
    /\ InitRest

SpecAvail == InitAvailWide /\ [][NextCall]_vars

\* --- the matching family: exact, misspelled and unrelated keys on both sides --
LangKeysBothSides == {L_English, L_Englsh, L_German}

InitMatch ==
    /\ \E r \in DictsOver(LangKeysBothSides, {<<"C","1">>}, MaxRequired),
          o \in DictsOver(LangKeysBothSides, {<<"C","2">>}, MaxRequired) :
          /\ project = With(BaseProject, "Languages Required", Dict(r))
          /\ candidates = <<With(BaseEmployee, "Languages Known", Dict(o))>>
    /\ custom = None
    /\ InitRest

SpecMatch == InitMatch /\ [][NextCall]_vars

\* --- the overlap family: required items that one candidate item can satisfy --
ItemsRequired == {L_Python, L_Pyhton, L_SAP}
ItemsOffered  == {L_Python, L_SAP, L_Java}

InitOverlap ==
    /\ \E fp \in ListFieldPairs, r \in ListsOver(ItemsRequired, MaxRequired),
          o \in ListsOver(ItemsOffered, MaxRequired) :
          /\ project = With(BaseProject, fp[1], List(r))
          /\ candidates = <<With(BaseEmployee, fp[2], List(o))>>
    /\ custom = None
    /\ InitRest

SpecOverlap == InitOverlap /\ [][NextCall]_vars

\* --- the interactive family: the weight table is edited during a batch -------
\* streamlit_app.py 1137-1147: a slider stores its value (0.00 .. 1.00, in
\* hundredths) into the table that line 1126 passed as custom_weights.
SliderValues == {0, 25, 100}

EditWeights ==
    /\ pc = "scoring"
    /\ custom.t = "weights"
    /\ \E weight_key \in DOMAIN custom.v, new_weight \in SliderValues :
          /\ new_weight # custom.v[weight_key]
          /\ custom' = [custom EXCEPT !.v[weight_key] = new_weight]
    /\ UNCHANGED <<project, candidates, SCORING_WEIGHTS, now, reports, pc, exception, tie_up, driver>>

NextEdit == ScoreCandidate \/ Return \/ EditWeights

SliderTables == [{"SkillMatchScore", "AvailabilityScore"} -> SliderValues]

EditedCandidates ==
    { BaseEmployee,
      Identified(With(With(BaseEmployee, "Core Competencies", Dict(<< <<L_Cloud, Num(3)>> >>)),
                      "Weekly Availability in Hours", Num(8)), <<"E","2">>) }

InitEdit ==
    /\ project = With(BaseProject, "Complexity", Num(8))
    /\ candidates \in [1..MaxBatch -> EditedCandidates]
    /\ custom \in {Weights(w) : w \in SliderTables}
    /\ InitRest

SpecEdit == InitEdit /\ [][NextEdit]_vars

\* --- the batch driver: main_matcher.main() -----------------------------------
\* A file on disk: absent, not JSON, unreadable, or holding a JSON value.
FileMissing    == [state |-> "missing", data |-> None]
FileInvalid    == [state |-> "invalid", data |-> None]
FileUnreadable == [state |-> "unreadable", data |-> None]
FileHolding(data) == [state |-> "ok", data |-> data]

\* Lines 13-26: the parsed value, None on any failure.
load_json_data(file) ==
    IF file.state = "ok" THEN file.data ELSE None

\* Lines 33-41: both files are loaded, then the run ends unless both values
\* are truthy.
LoadData_mut_both ==
    /\ driver.pc = "start"
    /\ \E projects_data \in {load_json_data(driver.project_file)},
          all_employees_data_list \in {load_json_data(driver.employee_file)} :
          driver' = [driver EXCEPT
                       !.projects_data = projects_data,
                       !.all_employees_data_list = all_employees_data_list,
                       !.pc = IF ~Truthy(projects_data) /\ ~Truthy(all_employees_data_list)
                              THEN "exited" ELSE "init_retriever"]
    /\ UNCHANGED <<project, candidates, custom, SCORING_WEIGHTS, now, reports, pc, exception, tie_up>>

LoadData ==
    /\ driver.pc = "start"
    /\ \E projects_data \in {load_json_data(driver.project_file)},
          all_employees_data_list \in {load_json_data(driver.employee_file)} :
          driver' = [driver EXCEPT
                       !.projects_data = projects_data,
                       !.all_employees_data_list = all_employees_data_list,
                       !.pc = IF ~Truthy(projects_data) \/ ~Truthy(all_employees_data_list)
                              THEN "exited" ELSE "init_retriever"]
    /\ UNCHANGED <<project, candidates, custom, SCORING_WEIGHTS, now, reports, pc, exception, tie_up>>

\* Lines 44-57: initialize_retriever_system returns a retriever or None.
InitRetriever ==
    /\ driver.pc = "init_retriever"
    /\ \E retriever_system \in {"ready", "none"} :
          driver' = [driver EXCEPT
                       !.retriever_system = retriever_system,
                       !.pc = IF retriever_system = "none" THEN "exited" ELSE "retrieve"]
    /\ UNCHANGED <<project, candidates, custom, SCORING_WEIGHTS, now, reports, pc, exception, tie_up>>

\* all_employees_map[emp_id]: the last record of the list with that id.
HasEmployee(all_employees_data_list, emp_id) ==
    \E i \in 1..Len(all_employees_data_list.v) :
        all_employees_data_list.v[i]["EmployeeID"] = emp_id

EmployeeOf(all_employees_data_list, emp_id) ==
    LET n == CHOOSE i \in 1..Len(all_employees_data_list.v) :
                 /\ all_employees_data_list.v[i]["EmployeeID"] = emp_id
                 /\ \A j \in (i + 1)..Len(all_employees_data_list.v) :
                        all_employees_data_list.v[j]["EmployeeID"] # emp_id
    IN  all_employees_data_list.v[n]

\* Lines 87-96: the retrieved candidates found in the map, each a copy of its
\* record carrying the similarity as document_score.
RECURSIVE FetchDetails(_, _)
FetchDetails(retrieved_candidate_info, all_employees_data_list) ==
    IF retrieved_candidate_info = <<>> THEN <<>>
    ELSE LET candidate == Head(retrieved_candidate_info)
             rest == FetchDetails(Tail(retrieved_candidate_info), all_employees_data_list)
         IN  IF HasEmployee(all_employees_data_list, candidate.emp_id)
             THEN << With(EmployeeOf(all_employees_data_list, candidate.emp_id),
                          "document_score", Num(candidate.similarity_score)) >> \o rest
             ELSE rest

\* What retrieve_top_n_employees may return: ids the collection holds, whether
\* or not the employee file still has them.
RetrievedCandidates ==
    { [emp_id |-> Str(id), similarity_score |-> 730] :
        id \in {<<"E","1">>, <<"E","3">>, <<"E","9">>} }

RetrievedInfos == UNION { [1..n -> RetrievedCandidates] : n \in 0..MaxBatch }

\* Lines 59-107: the first project is selected, the candidates are retrieved
\* and their records fetched; the batch is entered unless nothing is left.
Retrieve ==
    /\ driver.pc = "retrieve"
    /\ \E retrieved_candidate_info \in RetrievedInfos :
          \E candidate_employees_for_scoring \in
                 {FetchDetails(retrieved_candidate_info, driver.all_employees_data_list)} :
             IF candidate_employees_for_scoring = <<>>
             THEN /\ driver' = [driver EXCEPT
                                  !.retrieved_candidate_info = retrieved_candidate_info,
                                  !.pc = "exited"]
                  /\ UNCHANGED <<project, candidates, reports, pc>>
             ELSE /\ driver' = [driver EXCEPT
                                  !.retrieved_candidate_info = retrieved_candidate_info,
                                  !.pc = "scoring"]
                  /\ project' = driver.projects_data.v[1]
                  /\ candidates' = candidate_employees_for_scoring
                  /\ reports' = <<>>
                  /\ pc' = "scoring"
    /\ UNCHANGED <<custom, SCORING_WEIGHTS, now, exception, tie_up>>

\* Lines 112-140: the reports are printed and, when there are any, written to
\* the scores file; an IOError leaves the file as it was.
SaveScores ==
    /\ driver.pc = "scoring"
    /\ pc = "returned"
    /\ \E written \in BOOLEAN :
          driver' = [driver EXCEPT
                       !.scores_file = IF reports # <<>> /\ written
                                       THEN "written" ELSE driver.scores_file,
                       !.pc = "finished"]
    /\ UNCHANGED <<project, candidates, custom, SCORING_WEIGHTS, now, reports, pc, exception, tie_up>>

NextMain == LoadData \/ InitRetriever \/ Retrieve \/ ScoreCandidate \/ Return \/ SaveScores

DriverEmployees ==
    { e \in Roster : e["EmployeeID"] \in {Str(<<"E","1">>), Str(<<"E","3">>)} }

ProjectFiles ==
    {FileMissing, FileInvalid, FileUnreadable}
      \cup { FileHolding(data) :
               data \in {None, List(<<>>), List(<<BaseProject>>)}
                          \cup { List(<<p, BaseProject>>) : p \in BatchProjects } }

EmployeeFiles ==
    {FileMissing, FileInvalid, FileUnreadable}
      \cup { FileHolding(data) :
               data \in {None, List(<<>>)}
                          \cup { List(<<e>>) : e \in DriverEmployees }
                          \cup { List(<<e, BaseEmployee>>) : e \in DriverEmployees } }

InitMain ==
    /\ \E project_file \in ProjectFiles, employee_file \in EmployeeFiles,
          scores_file \in {"absent", "stale"} :
          driver = [pc |-> "start",
                    project_file |-> project_file,
                    employee_file |-> employee_file,
                    scores_file |-> scores_file,
                    projects_data |-> Missing,
                    all_employees_data_list |-> Missing,
                    retriever_system |-> "unset",
                    retrieved_candidate_info |-> <<>>]
    /\ project = None
    /\ candidates = <<>>
    /\ custom = None
    /\ SCORING_WEIGHTS = DefaultWeights
    /\ now = T0
    /\ reports = <<>>
    /\ pc = "idle"
    /\ exception = ""
    /\ tie_up \in BOOLEAN

SpecMain == InitMain /\ [][NextMain]_vars

\* --- the rescaling family: small weights and scores with an odd last digit ----
ScaleWeightValues == {0, 1, 3}

ScaleTables ==
    [{"AvailabilityScore", "RetrieverScore", "LeadershipScore"} -> ScaleWeightValues]

ScaleEmployees ==
    { With(With(BaseEmployee, "document_score", Num(d)),
           "Weekly Availability in Hours", Num(c))
        : d \in {0, 735, 1000, 1200}, c \in {8, 40} }

InitScale ==
    /\ project = BaseProject
    /\ \E e \in ScaleEmployees : candidates = <<e>>
    /\ custom \in {Weights(w) : w \in ScaleTables}
    /\ InitRest

SpecScale == InitScale /\ [][NextCall]_vars

\* --- the overrun family: deadlines with a time of day, fractional durations ---
EffortsOverrun    == {Num(10), Num(80), Num(400)}
EndsOverrun       == { DateStr(T0 + 11 * MinutesPerDay, FALSE),
                       DateStr(T0 + 12 * MinutesPerDay, FALSE),
                       DateStr(T0 + 24 * MinutesPerDay, FALSE),
                       Num(T0 + 24 * MinutesPerDay - 720),
                       Num(T0 + 37 * MinutesPerDay + 720),
                       DateStr(T0 + 60 * MinutesPerDay, FALSE) }
CapacitiesOverrun == {Num(20), Num(40)}

InitOverrun ==
    /\ \E e \in EffortsOverrun, d \in EndsOverrun :
          project = With(With(BaseProject, "Effort", e), "Requested End Date", d)
    /\ \E c \in CapacitiesOverrun :
          candidates = <<With(With(BaseEmployee, "Available From",
                                   DateStr(T0 + 10 * MinutesPerDay, FALSE)),
                              "Weekly Availability in Hours", c)>>
    /\ custom = None
    /\ InitRest

SpecOverrun == InitOverrun /\ [][NextCall]_vars

(***************************************************************************)
(* Properties.                                                             *)
(***************************************************************************)
Abs(n) == IF n < 0 THEN 0 - n ELSE n

\* The weight table of the run.
ActiveWeights == IF custom.t = "none" THEN SCORING_WEIGHTS ELSE custom.v

\* A field that is absent, null or empty (an encoded value: once decoded).
EmptyValue(x) ==
    \/ x.t \in {"missing", "none"}
    \/ x.t \in {"str", "list", "dict"} /\ x.v = <<>>
    \/ x.t = "json" /\ x.v.v = <<>>

\* <<factor, requirement field, candidate field>> of the list and mapping factors.
OverlapFactors ==
    { <<"ProductScore", "Products Involved", "Products Experience">>,
      <<"CertificationScore", "Customer Preferences (Certifications)",
        "External/Internal Certifications">>,
      <<"ExpertiseScore", "Integration Requirements (Expertise Areas)", "Expertise Areas">>,
      <<"IndustryScore", "Customer Industry", "Industry Experience">>,
      <<"LanguageScore", "Languages Required", "Languages Known">> }

SkillFactor == <<"SkillMatchScore", "Required Skills and Expertise", "Core Competencies">>

\* The entries of a mapping-valued field, none when it is no mapping.
Entries(x) == IF x.t = "dict" THEN x.v ELSE <<>>

\* The required skills of the project that match a skill of candidate k.
MatchedSkills(k) ==
    LET offered == candidates[k]["Core Competencies"]
        needed  == Entries(project["Required Skills and Expertise"])
    IN  IF Entries(offered) = <<>> THEN {}
        ELSE {i \in 1..Len(needed) : best_fuzzy_match(needed[i][1], offered, 70) # 0}

\* The sum over the matched skills of candidate k of the fit, in tenths:
\* 10 when the candidate's level reaches the required one, else
\* 10 - (required - actual).
FitTenths(k) ==
    LET offered == candidates[k]["Core Competencies"]
        needed  == Entries(project["Required Skills and Expertise"])
        fit == [i \in MatchedSkills(k) |->
                  LET required == needed[i][2].v
                      actual == offered.v[best_fuzzy_match(needed[i][1], offered, 70)][2].v
                  IN  IF actual >= required THEN 10 ELSE 10 - (required - actual)]
    IN  SumOver(MatchedSkills(k), fit)

\* The complexity of the project, clamped to 0..10.
ClampedComplexity == Max2(0, Min2(10, project["Complexity"].v))

\* A record with every encoded field replaced by the value it encodes.
Decoded(record) ==
    [f \in DOMAIN record |-> IF record[f].t = "json" THEN record[f].v ELSE record[f]]

\* C1: the overall score of every report is the weighted mean of the scores,
\* rounded to 4 decimals, over exactly the names that are both in the weight
\* table and in the computed Scores (overall is a nearest ten-thousandth of
\* sum(score * weight) / sum(weight)); a weighted name that was not computed
\* adds nothing to either sum.
C1_RenormalizedWeightedMean ==
    \A k \in 1..Len(reports) :
        LET Scores == reports[k].Scores
            both == DOMAIN ActiveWeights \cap DOMAIN Scores
            numerator == SumOver(both, [n \in both |-> Scores[n] * ActiveWeights[n]])
            denominator == SumOver(both, [n \in both |-> ActiveWeights[n]])
        IN  denominator > 0 =>
              2 * Abs(10 * numerator - reports[k].OverallWeightedScore * denominator)
                <= denominator

\* Weights {SkillMatchScore: 0.5, YearsExperienceScore: 0.5}, the second never
\* computed, and a skill score of 1.0: the overall score is 1.0.
C1_Witness ==
    /\ Len(reports) = 1
    /\ custom.t = "weights"
    /\ DOMAIN custom.v = {"SkillMatchScore", "YearsExperienceScore"}
    /\ custom.v["SkillMatchScore"] = 50
    /\ custom.v["YearsExperienceScore"] = 50
    /\ reports[1].Scores["SkillMatchScore"] = 1000
    /\ reports[1].OverallWeightedScore = 10000

\* C2: scoring never raises: no exception leaves the batch, and a batch that
\* returned holds one report for every candidate.
C2_NeverRaises ==
    /\ pc # "raised"
    /\ pc = "returned" => Len(reports) = Len(candidates)

\* C3: scoring is deterministic: two calls of one batch with the same
\* candidate record (the project and the weights are those of the batch)
\* give identical reports, whatever the clock at each call.
C3_Deterministic ==
    \A i, j \in 1..Len(reports) :
        candidates[i] = candidates[j] => reports[i] = reports[j]

\* C4: every entry of a report's Scores other than RetrieverScore lies in [0, 1].
C4_ScoresInUnitInterval ==
    \A k \in 1..Len(reports) :
        \A n \in DOMAIN reports[k].Scores \ {"RetrieverScore"} :
            /\ reports[k].Scores[n] >= 0
            /\ reports[k].Scores[n] <= 1000

\* A report whose availability score and language score are strictly inside
\* the interval (an overrun below 30 days, a language one level short).
C4_Witness ==
    /\ Len(reports) = 1
    /\ reports[1].Scores["AvailabilityScore"] \in 1..999
    /\ reports[1].Scores["LanguageScore"] \in 1..999
    /\ reports[1].Scores["IsFullyAvailable"] = 0

\* C5: a field that arrives as a JSON-encoded string is decoded before use:
\* every report has the scores that the records with the decoded values get,
\* and a call raises only if the call on the decoded records raises.
C5_EncodedFieldsDecoded ==
    /\ \A k \in 1..Len(reports) :
          LET decoded == score_employee_against_project(
                             Decoded(candidates[k]), Decoded(project), custom)
          IN  decoded.exc = "" /\ decoded.Scores = reports[k].Scores
    /\ pc = "raised" =>
          score_employee_against_project(
              Decoded(candidates[Len(reports) + 1]), Decoded(project), custom).exc # ""

\* C6: when at least one required skill matches, the skill score is 1.0 if
\* capability >= target, else capability / target rounded to 2 decimals,
\* where capability = coverage * mean fit = (sum of fits) / (required count)
\* and target = clamped complexity / 10. In tenths: capability >= target iff
\* FitTenths >= complexity * count, and capability / target =
\* FitTenths / (complexity * count).
C6_SkillFormula ==
    \A k \in 1..Len(reports) :
        MatchedSkills(k) # {} =>
            LET count == Len(Entries(project["Required Skills and Expertise"]))
                scale == ClampedComplexity * count
                score == reports[k].Scores["SkillMatchScore"]
            IN  IF FitTenths(k) >= scale THEN score = 1000
                ELSE /\ score % 10 = 0
                     /\ 2 * Abs(100 * FitTenths(k) - (score \div 10) * scale) <= scale

\* Two skills required, one matched below its required level, complexity 8:
\* the division branch gives a score strictly between 0 and 1.
C6_Witness ==
    /\ Len(reports) = 1
    /\ project["Complexity"] = Num(8)
    /\ Len(Entries(project["Required Skills and Expertise"])) = 2
    /\ Cardinality(MatchedSkills(1)) = 1
    /\ FitTenths(1) = 7
    /\ reports[1].Scores["SkillMatchScore"] \in 1..999

\* C7: with complexity 0 the skill scorer never divides by zero, and the
\* score is 1.0 when at least one skill matched.
C7_ZeroTargetNeverDivides ==
    project["Complexity"] = Num(0) =>
        /\ exception # "ZeroDivisionError"
        /\ \A k \in 1..Len(reports) :
              MatchedSkills(k) # {} => reports[k].Scores["SkillMatchScore"] = 1000

\* Complexity 0 and a matched skill whose fit is 0 (level 10 required, level 0
\* offered): capability 0 meets target 0.
C7_Witness ==
    /\ project["Complexity"] = Num(0)
    /\ Len(reports) = 1
    /\ project["Required Skills and Expertise"] = Dict(<< <<L_Cloud, Num(10)>> >>)
    /\ candidates[1]["Core Competencies"] = Dict(<< <<L_Cloud, Num(0)>> >>)
    /\ MatchedSkills(1) = {1}
    /\ FitTenths(1) = 0
    /\ reports[1].Scores["SkillMatchScore"] = 1000

\* C8: the skill score is exactly 0.0 whenever no required skill matches a
\* candidate skill, an empty or missing requirement included.
C8_NoMatchIsZero ==
    \A k \in 1..Len(reports) :
        MatchedSkills(k) = {} => reports[k].Scores["SkillMatchScore"] = 0

\* An empty requirement mapping against a candidate with skills.
C8_Witness ==
    /\ Len(reports) = 1
    /\ project["Required Skills and Expertise"] = Dict(<<>>)
    /\ Len(Entries(candidates[1]["Core Competencies"])) > 0
    /\ reports[1].Scores["SkillMatchScore"] = 0

\* C9: for the product, certification, expertise, industry and language
\* factors an empty or missing requirement scores exactly 1.0, whatever the
\* candidate's data is.
C9_EmptyRequirementSatisfied ==
    \A k \in 1..Len(reports) :
        \A f \in OverlapFactors :
            EmptyValue(project[f[2]]) => reports[k].Scores[f[1]] = 1000

\* An empty requirement against empty candidate data.
C9_Witness ==
    /\ Len(reports) = 1
    /\ \E f \in OverlapFactors :
          /\ EmptyValue(project[f[2]])
          /\ EmptyValue(candidates[1][f[3]])
          /\ reports[1].Scores[f[1]] = 1000

\* C10: for the product, certification, expertise, industry, language and
\* skill factors a requirement that is present with candidate data that is
\* empty or missing scores exactly 0.0.
C10_MissingCandidateDataIsZero ==
    \A k \in 1..Len(reports) :
        \A f \in OverlapFactors \cup {SkillFactor} :
            ~EmptyValue(project[f[2]]) /\ EmptyValue(candidates[k][f[3]])
                => reports[k].Scores[f[1]] = 0

\* Certifications required and an empty list of certifications held.
C10_Witness ==
    /\ Len(reports) = 1
    /\ ~EmptyValue(project["Customer Preferences (Certifications)"])
    /\ candidates[1]["External/Internal Certifications"] = List(<<>>)
    /\ reports[1].Scores["CertificationScore"] = 0

\* The six CEFR labels and their numbers, A1 = 1 .. C2 = 6.
CefrLabels ==
    { <<"A","1">>, <<"A","2">>, <<"B","1">>, <<"B","2">>, <<"C","1">>, <<"C","2">> }

CefrNumber(label) ==
    CASE label = <<"A","1">> -> 1 [] label = <<"A","2">> -> 2
      [] label = <<"B","1">> -> 3 [] label = <<"B","2">> -> 4
      [] label = <<"C","1">> -> 5 [] label = <<"C","2">> -> 6

\* The language requirement of the project and the languages of candidate k.
LangsRequired == Entries(Decoded(project)["Languages Required"])
LangsKnown(k) == Decoded(candidates[k])["Languages Known"]

\* Every level on both sides is one of the six CEFR labels.
CefrOnly(k) ==
    /\ \A i \in 1..Len(LangsRequired) : LangsRequired[i][2] \in CefrLabels
    /\ \A j \in 1..Len(Entries(LangsKnown(k))) : Entries(LangsKnown(k))[j][2] \in CefrLabels

\* The required languages that match a language of candidate k.
MatchedLangs(k) ==
    IF Entries(LangsKnown(k)) = <<>> THEN {}
    ELSE {i \in 1..Len(LangsRequired) :
            best_fuzzy_match(LangsRequired[i][1], LangsKnown(k), 70) # 0}

\* The sum over the matched languages of candidate k of the fit, in sixths:
\* 6 when the candidate's number reaches the required one, else
\* max(0, 6 - (required - actual)).
FitSixths(k) ==
    LET fit == [i \in MatchedLangs(k) |->
                  LET required == CefrNumber(LangsRequired[i][2])
                      actual == CefrNumber(
                          Entries(LangsKnown(k))[
                              best_fuzzy_match(LangsRequired[i][1], LangsKnown(k), 70)][2])
                  IN  IF actual >= required THEN 6
                      ELSE Max2(0, 6 - (required - actual))]
    IN  SumOver(MatchedLangs(k), fit)

\* C11: for a non-empty language requirement and non-empty candidate
\* languages with CEFR levels, the language score is coverage * average fit
\* rounded to 3 decimals, that is the nearest thousandth of
\* (sum of fits) / (required count); required English C1 against English C2
\* gives 1.0 and required English C2 against English A1 gives 0.167.
C11_LanguageFormula ==
    \A k \in 1..Len(reports) :
        LET count == Len(LangsRequired)
            score == reports[k].Scores["LanguageScore"]
        IN  /\ (count > 0 /\ Entries(LangsKnown(k)) # <<>> /\ CefrOnly(k)) =>
                  2 * Abs(6 * count * score - 1000 * FitSixths(k)) <= 6 * count
            /\ (/\ LangsRequired = << <<L_English, <<"C","1">>>> >>
                /\ LangsKnown(k) = Dict(<< <<L_English, <<"C","2">>>> >>)) => score = 1000
            /\ (/\ LangsRequired = << <<L_English, <<"C","2">>>> >>
                /\ LangsKnown(k) = Dict(<< <<L_English, <<"A","1">>>> >>)) => score = 167

\* Two languages required, one of them matched, two levels too low:
\* coverage 1/2, fit 4/6, score 0.333.
C11_Witness ==
    /\ Len(reports) = 1
    /\ CefrOnly(1)
    /\ Len(LangsRequired) = 2
    /\ Cardinality(MatchedLangs(1)) = 1
    /\ FitSixths(1) = 4
    /\ reports[1].Scores["LanguageScore"] = 333

\* The second example of C11 is scored: English C2 required, English A1 known.
C11_ExampleScored ==
    /\ Len(reports) = 1
    /\ LangsRequired = << <<L_English, <<"C","2">>>> >>
    /\ LangsKnown(1) = Dict(<< <<L_English, <<"A","1">>>> >>)

\* C12: a level given as Native counts as CEFR number 6: a candidate whose
\* only language is the required one at level Native scores 1.0 against
\* every required CEFR level, and a requirement of Native is met by C2 only
\* (a candidate at A1 scores max(0, 1 - 5/6) = 0.167 against it).
C12_NativeIsC2 ==
    \A k \in 1..Len(reports) :
        \A level \in CefrLabels \cup {<<"N","a","t","i","v","e">>} :
            /\ (/\ LangsRequired = << <<L_English, level>> >>
                /\ LangsKnown(k) = Dict(<< <<L_English, <<"N","a","t","i","v","e">>>> >>))
                  => reports[k].Scores["LanguageScore"] = 1000
            /\ (/\ LangsRequired = << <<L_English, <<"N","a","t","i","v","e">>>> >>
                /\ LangsKnown(k) = Dict(<< <<L_English, <<"A","1">>>> >>))
                  => reports[k].Scores["LanguageScore"] = 167

\* The four inputs of the availability projector for candidate k.
EffortInput == project["Effort"]
EndInput == project["Requested End Date"]
AvailableInput(k) == candidates[k]["Available From"]
CapacityInput(k) == candidates[k]["Weekly Availability in Hours"]

\* Year 2000 in epoch milliseconds, in minutes: 946684800000 / 60000.
MsThresholdMinutes == 15778080

\* A date input that denotes an instant: a date text, or a number of epoch
\* milliseconds (a number above the threshold).
ValidDate(x) == x.t = "date" \/ (x.t = "num" /\ x.v > MsThresholdMinutes)

PositiveNumber(x) == x.t = "num" /\ x.v > 0

\* The whole days by which the projected completion of candidate k (available
\* + effort / capacity * 7 days) passes the requested completion; at most 0
\* when it is on time.  10080 is the minutes of 7 days.
OverrunMinutesTimesCapacity(k) ==
    10080 * EffortInput.v - (EndInput.v - AvailableInput(k).v) * CapacityInput(k).v

OverrunDays(k) ==
    OverrunMinutesTimesCapacity(k) \div (MinutesPerDay * CapacityInput(k).v)

\* The score the projection formula gives candidate k, in thousandths.
ProjectionHolds(k) ==
    LET score == reports[k].Scores["AvailabilityScore"]
    IN  IF OverrunMinutesTimesCapacity(k) <= 0 THEN score = 1000
        ELSE IF OverrunDays(k) >= 30 THEN score = 0
        ELSE 2 * Abs(30 * score - 1000 * (30 - OverrunDays(k))) <= 30

\* C13: for valid dates, effort > 0 and capacity > 0 the availability score
\* is 1.0 when availability + effort / capacity * 7 days is at or before the
\* requested completion, otherwise max(0, 1 - overrun_days / 30) with the
\* overrun in whole days: 0.0 from 30 days on.
C13_ProjectionFormula ==
    \A k \in 1..Len(reports) :
        (/\ ValidDate(EndInput) /\ ValidDate(AvailableInput(k))
         /\ PositiveNumber(EffortInput) /\ PositiveNumber(CapacityInput(k)))
            => ProjectionHolds(k)

\* C13 holds of the dates that are of one kind, both with or both without a
\* UTC offset (a number is without one).
C13_SameKindProjection ==
    \A k \in 1..Len(reports) :
        (/\ ValidDate(EndInput) /\ ValidDate(AvailableInput(k))
         /\ PositiveNumber(EffortInput) /\ PositiveNumber(CapacityInput(k))
         /\ (EndInput.t = "date" /\ EndInput.aware)
              = (AvailableInput(k).t = "date" /\ AvailableInput(k).aware))
            => ProjectionHolds(k)

\* An overrun of 18 days is scored 0.4.
C13_SameKindWitness ==
    /\ Len(reports) = 1
    /\ ValidDate(EndInput) /\ ValidDate(AvailableInput(1))
    /\ PositiveNumber(EffortInput) /\ PositiveNumber(CapacityInput(1))
    /\ OverrunDays(1) = 18
    /\ reports[1].Scores["AvailabilityScore"] = 400

\* An effort, a capacity or a date that is not given.
NotGiven(x) == x.t \in {"missing", "none"}

\* C14: the availability score is 1.0 whenever the required effort is 0 or
\* missing, whatever the capacity and the two dates are.
C14_ZeroEffortIsAvailable ==
    \A k \in 1..Len(reports) :
        (NotGiven(EffortInput) \/ EffortInput = Num(0))
            => reports[k].Scores["AvailabilityScore"] = 1000

\* A capacity that is missing, not a number, zero or negative.
NoCapacity(x) == ~PositiveNumber(x)

\* An availability date that is missing or that does not parse.
NoAvailableDate(x) == x.t \notin {"date", "num"}

\* C15: the availability score is 0.0 whenever the weekly capacity is zero,
\* negative, missing or not a number, whatever the effort (0 included) and
\* the dates are, and whenever the availability date is missing or does not
\* parse; no division by zero is performed or reported.
C15_NoCapacityIsZero ==
    /\ exception # "ZeroDivisionError"
    /\ \A k \in 1..Len(reports) :
          /\ (NoCapacity(CapacityInput(k)) \/ NoAvailableDate(AvailableInput(k)))
                => reports[k].Scores["AvailabilityScore"] = 0
          /\ reports[k].Details["AvailabilityScore"].status_message
                # "Error in availability_score: ZeroDivisionError"

\* Capacity 0 and effort 0 with both dates valid: the capacity decides.
C15_Witness ==
    /\ Len(reports) = 1
    /\ CapacityInput(1) = Num(0)
    /\ EffortInput = Num(0)
    /\ ValidDate(EndInput) /\ ValidDate(AvailableInput(1))
    /\ reports[1].Scores["AvailabilityScore"] = 0
    /\ reports[1].Details["AvailabilityScore"].status_message
          = "Employee weekly capacity is zero or not specified."

\* C16: when the requested completion date is missing or does not parse, a
\* far-future deadline is assumed: with a valid availability date (without a
\* UTC offset, as the assumed deadline is), capacity > 0 and effort > 0 the
\* score is 1.0 (every projection of the family ends within the five years).
C16_NoDeadlineIsFarFuture ==
    \A k \in 1..Len(reports) :
        (/\ EndInput.t \notin {"date", "num"}
         /\ ValidDate(AvailableInput(k))
         /\ ~(AvailableInput(k).t = "date" /\ AvailableInput(k).aware)
         /\ PositiveNumber(EffortInput) /\ PositiveNumber(CapacityInput(k)))
            => reports[k].Scores["AvailabilityScore"] = 1000

\* A number at or below the threshold is epoch seconds: the same instant in
\* epoch milliseconds is 1000 times the number.
MsForm(x) ==
    IF x.t = "num" /\ x.v <= MsThresholdMinutes THEN Num(1000 * x.v) ELSE x

\* C17: a numeric date given in epoch seconds (below the threshold) gives the
\* same parsed dates and the same score as the instant given in epoch
\* milliseconds, for the requested completion and for the availability date.
C17_SecondsAndMilliseconds ==
    \A k \in 1..Len(reports) :
        LET same == availability_score(EffortInput, MsForm(EndInput),
                                       MsForm(AvailableInput(k)), CapacityInput(k))
            got == reports[k].Details["AvailabilityScore"]
        IN  /\ reports[k].Scores["AvailabilityScore"] = same.score
            /\ got.parsed_project_end_date = same.details.parsed_project_end_date
            /\ got.parsed_employee_available_date
                  = same.details.parsed_employee_available_date

\* The mode a flexibility field names: the first of remote, hybrid and onsite
\* (also spelled on-site) that its text contains, in any case; "unrecognized"
\* for a text that contains none and for a field that is not given.
ModeOf(x) ==
    IF x.t # "str" THEN "unrecognized"
    ELSE IF Contains(Lower(x.v), Lower(L_Remote)) THEN "remote"
    ELSE IF Contains(Lower(x.v), Lower(L_Hybrid)) THEN "hybrid"
    ELSE IF Contains(Lower(x.v), Lower(L_Onsite))
            \/ Contains(Lower(x.v), <<"o","n","s","i","t","e">>) THEN "onsite"
    ELSE "unrecognized"

ProjectMode == ModeOf(project["Work Flexibility"])
CandidateMode(k) == ModeOf(candidates[k]["Work Flexibility"])

\* The work locations of the project and of candidate k fuzzy-match.
LocationsMatch(k) ==
    /\ project["Work Location"].t = "str"
    /\ candidates[k]["Work Location"].t = "str"
    /\ fuzzy_match(project["Work Location"].v, candidates[k]["Work Location"].v)

\* The decision table of the location factor, in thousandths, project mode
\* first.
LocationTable(p_mode, e_mode, matched) ==
    CASE p_mode = "remote" -> 1000
      [] p_mode = "onsite" ->
            IF ~matched THEN 0
            ELSE (CASE e_mode = "onsite" -> 1000
                    [] e_mode = "hybrid" -> 500
                    [] e_mode = "remote" -> 0)
      [] p_mode = "hybrid" ->
            IF ~matched THEN 0
            ELSE (CASE e_mode = "onsite" -> 1000
                    [] e_mode = "hybrid" -> 1000
                    [] e_mode = "remote" -> 0)

MaxSimilarity(query, mapping) ==
    LET ratios == {RatioLower(query, mapping[j][1]) : j \in 1..Len(mapping)}
    IN  IF ratios = {} THEN 0 ELSE CHOOSE r \in ratios : \A q \in ratios : q <= r

\* The line of the language log of candidate k about required language i.
MatchLine(k, i) == reports[k].Details["LanguageScore"][i]

C20_LaterKeyWins ==
    /\ Len(reports) = 1
    /\ LangsRequired = << <<L_English, <<"C","1">>>> >>
    /\ Entries(LangsKnown(1)) = << <<L_Englsh, <<"C","2">>>>, <<L_English, <<"C","2">>>> >>
    /\ MatchLine(1, 1)[3][1] = L_English

\* <<factor, requirement field, candidate field>> of the three list factors.
ListFactors ==
    { f \in OverlapFactors :
        f[1] \in {"ProductScore", "CertificationScore", "ExpertiseScore"} }

\* The items of a list-valued field, none when it is no list.
ListItems(x) == IF x.t = "list" THEN x.v ELSE <<>>

\* The required items of factor f that fuzzy-match an item of candidate k.
MatchedItems(k, f) ==
    LET needed  == ListItems(Decoded(project)[f[2]])
        offered == ListItems(Decoded(candidates[k])[f[3]])
    IN  {i \in 1..Len(needed) :
            \E j \in 1..Len(offered) : fuzzy_match(needed[i], offered[j])}

\* C21: for non-empty required and candidate lists the product, certification
\* and expertise scores are (required items that fuzzy-match at least one
\* candidate item) / (required items), rounded to 3 decimals: a required item
\* counts once, and one candidate item may satisfy several required items.
C21_ListOverlapRatio ==
    \A k \in 1..Len(reports) :
        \A f \in ListFactors :
            LET needed  == ListItems(Decoded(project)[f[2]])
                offered == ListItems(Decoded(candidates[k])[f[3]])
                score   == reports[k].Scores[f[1]]
            IN  (needed # <<>> /\ offered # <<>>) =>
                    2 * Abs(Len(needed) * score - 1000 * Cardinality(MatchedItems(k, f)))
                        <= Len(needed)

\* Two required products, both satisfied by the candidate's only product.
C21_Witness ==
    /\ Len(reports) = 1
    /\ project["Products Involved"] = List(<<L_Python, L_Pyhton>>)
    /\ candidates[1]["Products Experience"] = List(<<L_Python>>)
    /\ Cardinality(MatchedItems(1, <<"ProductScore", "Products Involved",
                                     "Products Experience">>)) = 2
    /\ reports[1].Scores["ProductScore"] = 1000

\* The names of the weight table that the report of candidate k has a score
\* for, and the sum of their weights.
AppliedWeightNames(k) == DOMAIN ActiveWeights \cap DOMAIN reports[k].Scores

AppliedWeightSum(k) ==
    SumOver(AppliedWeightNames(k), [n \in AppliedWeightNames(k) |-> ActiveWeights[n]])

\* C22: when no weight applies the overall score is 0.0 and the call returns:
\* for an empty weight table, for a table that names no computed factor and
\* for a table whose applicable weights sum to 0.
C22_NoWeightIsZero ==
    /\ pc # "raised"
    /\ \A k \in 1..Len(reports) :
          (AppliedWeightNames(k) = {} \/ AppliedWeightSum(k) = 0)
              => reports[k].OverallWeightedScore = 0

\* A table whose only applicable weight is 0, on a factor that scored 1.0,
\* beside a positive weight on a factor that is not computed.
C22_Witness ==
    /\ Len(reports) = 1
    /\ custom = Weights([n \in {"SkillMatchScore", "YearsExperienceScore"} |->
                            IF n = "SkillMatchScore" THEN 0 ELSE 50])
    /\ reports[1].Scores["SkillMatchScore"] = 1000
    /\ AppliedWeightSum(1) = 0
    /\ reports[1].OverallWeightedScore = 0

\* The empty table is scored.
C22_EmptyTableScored ==
    /\ Len(reports) = 1
    /\ custom.t # "none"
    /\ DOMAIN custom.v = {}
    /\ reports[1].OverallWeightedScore = 0

\* A table that names no computed factor is scored.
C22_ForeignTableScored ==
    /\ Len(reports) = 1
    /\ custom.t # "none"
    /\ DOMAIN custom.v = {"ProjectComplexityScore"}
    /\ reports[1].OverallWeightedScore = 0

\* The inputs of the batch are what they were before the step.
InputsKept ==
    /\ SCORING_WEIGHTS' = SCORING_WEIGHTS
    /\ custom' = custom
    /\ project' = project
    /\ candidates' = candidates

\* With a custom table every overall score is the weighted mean under that
\* table alone (a nearest ten-thousandth of it, 0 when no weight applies).
CustomTableAlone ==
    custom.t = "weights" =>
        \A k \in 1..Len(reports) :
            LET applied == DOMAIN custom.v \cap DOMAIN reports[k].Scores
                weighted == SumOver(applied,
                                [n \in applied |-> reports[k].Scores[n] * custom.v[n]])
                weight == SumOver(applied, [n \in applied |-> custom.v[n]])
            IN  IF weight > 0
                THEN 2 * Abs(10 * weighted - reports[k].OverallWeightedScore * weight)
                        <= weight
                ELSE reports[k].OverallWeightedScore = 0

\* C23: scoring leaves its inputs unchanged: no step of the batch changes the
\* default table SCORING_WEIGHTS, the custom table, the project record or a
\* candidate record; and when a custom table is passed the overall score is
\* computed from it alone, not from the default table.
C23_InputsUnchanged == [][InputsKept]_vars /\ []CustomTableAlone

\* A candidate scored under a custom table whose overall score differs from
\* the one the default table gives, the default table being as configured.
C23_Witness ==
    /\ pc = "returned"
    /\ Len(reports) = 1
    /\ custom.t = "weights"
    /\ SCORING_WEIGHTS = DefaultWeights
    /\ reports[1].OverallWeightedScore
          # OverallWeightedScore(reports[1].Scores, SCORING_WEIGHTS)

\* The report of candidate k is the one that scoring the candidate alone gives.
ScoredAlone(k) ==
    reports[k] = score_employee_against_project(candidates[k], project, custom)

\* C24: the batch ends with exactly one report per candidate, in the order of
\* the input list, each equal to the report of the candidate scored alone
\* against the project with the same weights, whatever the other candidates
\* of the batch are.
C24_BatchIsIndependent ==
    pc # "scoring" =>
        /\ Len(reports) = Len(candidates)
        /\ \A k \in 1..Len(reports) : ScoredAlone(k)

\* The aggregation trace of report k is the one the weight table w gives:
\* <<sum of score * weight, total weight applied, overall score>>.
ComputedWith(k, w) ==
    LET applied == DOMAIN w \cap DOMAIN reports[k].Scores
    IN  reports[k].Details["OverallWeightedScoreCalculation"]
          = << SumOver(applied, [n \in applied |-> reports[k].Scores[n] * w[n]]),
               SumOver(applied, [n \in applied |-> w[n]]),
               reports[k].OverallWeightedScore >>

\* C25: a batch uses one snapshot of the weight table: whatever edits the
\* table undergoes while the batch is scored, all the reports of the batch
\* are computed with the same weight values.
C25_BatchUsesSnapshot ==
    \E w \in SliderTables : \A k \in 1..Len(reports) : ComputedWith(k, w)

\* A data file that cannot be loaded: missing, not valid JSON, or empty.
CannotBeLoaded(file) ==
    \/ file.state \in {"missing", "invalid", "unreadable"}
    \/ file.data.t = "none"
    \/ file.data.t = "list" /\ file.data.v = <<>>

\* C26: when the project data or the employee data cannot be loaded, main()
\* ends before the retriever is initialized: no candidate is retrieved or
\* scored and the scores file is not written.
C26_LoadFailureIsFatal ==
    (/\ driver.pc # "start"
     /\ CannotBeLoaded(driver.project_file) \/ CannotBeLoaded(driver.employee_file))
       => /\ driver.pc = "exited"
          /\ driver.retriever_system = "unset"
          /\ driver.retrieved_candidate_info = <<>>
          /\ pc = "idle"
          /\ reports = <<>>
          /\ driver.scores_file # "written"

\* The projects load and the employee list is empty: the run has ended.
C26_Witness ==
    /\ driver.pc = "exited"
    /\ ~CannotBeLoaded(driver.project_file)
    /\ driver.employee_file.state = "ok"
    /\ CannotBeLoaded(driver.employee_file)

\* C27: in every report, each name present in Scores has an explanation
\* entry in Details.
C27_EveryFactorExplained ==
    \A k \in 1..Len(reports) :
        DOMAIN reports[k].Scores \subseteq DOMAIN reports[k].Details

\* The score of candidate k comes from a completion projection: valid dates of
\* one kind, effort > 0 and capacity > 0.
Projected(k) ==
    /\ ValidDate(EndInput) /\ ValidDate(AvailableInput(k))
    /\ PositiveNumber(EffortInput) /\ PositiveNumber(CapacityInput(k))
    /\ (EndInput.t = "date" /\ EndInput.aware)
         = (AvailableInput(k).t = "date" /\ AvailableInput(k).aware)

\* effort / capacity * 7, in thousandths of a day.
CalendarDaysNeeded(k) == (7000 * EffortInput.v) \div CapacityInput(k).v

\* The numbers the details hold, in thousandths.
DetailNumbers(d) ==
    {d.project_effort_calculated_days,
     1000 * d.employee_weekly_capacity_hours,
     1000 * d.days_over_under}
      \cup { 1000 * d[f].v :
               f \in { g \in {"raw_project_effort_hours", "raw_employee_weekly_capacity"} :
                         d[g].t = "num" } }

\* C28: the details of a projection expose the parsed requested completion
\* date, the parsed availability date, the calendar days needed
\* (effort / capacity * 7), the projected completion date and the over/under
\* day count, each with the value used in the computation.
C28_ProjectionIsExposed ==
    \A k \in 1..Len(reports) :
        Projected(k) =>
            LET d == reports[k].Details["AvailabilityScore"]
            IN  /\ d.parsed_project_end_date.t = "datetime"
                /\ d.parsed_project_end_date.v = EndInput.v
                /\ d.parsed_employee_available_date.t = "datetime"
                /\ d.parsed_employee_available_date.v = AvailableInput(k).v
                /\ d.calculated_project_end_for_employee.t = "datetime"
                /\ CapacityInput(k).v * (d.calculated_project_end_for_employee.v - AvailableInput(k).v)
                      = 10080 * EffortInput.v
                /\ d.days_over_under = OverrunDays(k)
                /\ CalendarDaysNeeded(k) \in DetailNumbers(d)

\* All of C28 but the calendar days needed is exposed.
C28_AllButCalendarDays ==
    \A k \in 1..Len(reports) :
        Projected(k) =>
            LET d == reports[k].Details["AvailabilityScore"]
            IN  /\ d.parsed_project_end_date.v = EndInput.v
                /\ d.parsed_employee_available_date.v = AvailableInput(k).v
                /\ CapacityInput(k).v * (d.calculated_project_end_for_employee.v - AvailableInput(k).v)
                      = 10080 * EffortInput.v
                /\ d.days_over_under = OverrunDays(k)

\* The weighted sum of the applied scores of report k, in the unit of the
\* overall score times the unit of the weights.
AppliedWeightedSum(k) ==
    10 * SumOver(AppliedWeightNames(k),
                 [n \in AppliedWeightNames(k) |-> reports[k].Scores[n] * ActiveWeights[n]])

\* The integers nearest to n / d (d > 0): both neighbours when n / d is
\* halfway between them, since the float quotient may fall on either side.
Nearest(n, d) ==
    IF 2 * (n % d) < d THEN {n \div d}
    ELSE IF 2 * (n % d) > d THEN {(n \div d) + 1}
    ELSE {n \div d, (n \div d) + 1}

\* The overall scores report k can get when every weight is multiplied by c.
Rescaled(k, c) == Nearest(c * AppliedWeightedSum(k), c * AppliedWeightSum(k))

ScaleFactors == {2, 3, 10}

AppliedScores(k) == { reports[k].Scores[n] : n \in AppliedWeightNames(k) }

\* With applied scores in [0,1] and non-negative weights the overall score is
\* between the smallest and the largest applied score.
BetweenApplied(k) ==
    (/\ \A s \in AppliedScores(k) : s >= 0 /\ s <= 1000
     /\ \A n \in AppliedWeightNames(k) : ActiveWeights[n] >= 0)
       => /\ \A s \in AppliedScores(k) :
                (\A t \in AppliedScores(k) : s <= t) => 10 * s <= reports[k].OverallWeightedScore
          /\ \A s \in AppliedScores(k) :
                (\A t \in AppliedScores(k) : s >= t) => 10 * s >= reports[k].OverallWeightedScore

OnTie(k) == 2 * (AppliedWeightedSum(k) % AppliedWeightSum(k)) = AppliedWeightSum(k)

C30_DaysAgreeWithBranch ==
    \A k \in 1..Len(reports) :
        Projected(k) =>
            LET d == reports[k].Details["AvailabilityScore"]
            IN  IF OverrunMinutesTimesCapacity(k) <= 0
                THEN d.days_over_under <= 0
                ELSE /\ d.days_over_under > 0
                     /\ reports[k].Scores["AvailabilityScore"] < 1000

\* C30 for the overruns of a whole day or more, and for the on-time branch.
C30_WholeDayOverruns ==
    \A k \in 1..Len(reports) :
        Projected(k) =>
            LET d == reports[k].Details["AvailabilityScore"]
            IN  IF OverrunMinutesTimesCapacity(k) <= 0
                THEN d.days_over_under <= 0
                ELSE OverrunDays(k) >= 1 =>
                     /\ d.days_over_under > 0
                     /\ reports[k].Scores["AvailabilityScore"] < 1000

====
